---------------------------- MODULE Spec2Model ----------------------------
(***************************************************************************)
(* A model of raknet-rs:                                                   *)
(*   - the server's OfflineHandler (src/src/server/offline.rs): the        *)
(*     pending LRU, the connected map, the reply being sent and the item   *)
(*     poll_next returns;                                                  *)
(*   - the ResendMap (src/src/resend_map.rs): the map of in-flight frame   *)
(*     sets, the cached deadline, the clock and the retransmit buffer.     *)
(* Spec drives the OfflineHandler, SpecResend drives the ResendMap.        *)
(***************************************************************************)
EXTENDS Integers, Sequences, FiniteSets, TLC

VARIABLES
    max_pending,  \* OfflineHandler.config.max_pending: the capacity of the pending LRU
    pending,      \* OfflineHandler.pending: LRU of (addr, protocol_version), most recent first
    connected,    \* OfflineHandler.connected: addr -> Peer
    sending,      \* OfflineHandler.sending: the send in flight, or NoSend
    yielded,      \* what the latest poll_next returned: NoItem while it is looping
    lastOp,       \* the latest inbound packet poll_next handled
    map,          \* ResendMap.map: seq_num -> ResendEntry
    last_record_expired_at, \* ResendMap.last_record_expired_at
    now,          \* Instant::now()
    buffer,       \* the VecDeque<Frame> the latest ResendMap call was handed, as the
                  \* call left it (<< >> when the call takes no buffer)
    lastCall,     \* the latest ResendMap call, and whether it removed an entry
    outstanding,  \* the seq_nums recorded and not since acked, nacked or handed
                  \* to the buffer by process_stales
    wire,         \* the first byte of the datagram in the codec's buffer
    written,      \* the PackId Packet::write put there, NoPackId for a byte
                  \* that came from elsewhere
    pack_id,      \* the result of PackId::from_u8 in the latest Packet::read
    reader,       \* what the latest Packet::read dispatched the body to
    reachable,    \* whether datagrams can get through to the peer at all
    submitted,    \* the number of messages the user has handed to the sink
    outgoing,     \* the writer's queue of frames, retransmissions first
    next_seq_num, \* the seq_num of the next outbound FrameSet
    net,          \* the FrameSets in flight to the peer
    to_ack,       \* the peer's OutgoingAck: the seq_nums received and not yet acked
    acks,         \* the ACK packets in flight from the peer
    parted,       \* the peer's Reassembler: parted_id -> the indices received, as they came
    expected,     \* the peer's OrderedChannels: expected_ordered_index of channel 0
    reorder,      \* the peer's OrderedChannels: the reorder buffer of channel 0
    delivered,    \* the messages the peer's OrderedChannels has released
    client,       \* the client's end of the connection: Open, Closing or Closed
    server,       \* the server's end of the connection: Open, Closing or Closed
    reply,        \* the server's DisconnectNotification on its way and its ACK
    ended,        \* the sides whose inbound stream has yielded end-of-stream
    addr_buf,     \* the bytes of the buffer a socket address is written to and read from
    addr_put,     \* the address put_socket_addr wrote there, NoSocketAddr for
                  \* bytes that came from elsewhere
    addr_got,     \* the result of the latest get_socket_addr and the bytes it left
    lookups,      \* connect_to: the resolved addresses not yet tried
    chosen,       \* connect_to: the address the socket is connected to
    stage,        \* connect_to: the await the call is at
    completed,    \* connect_to: the awaits that have returned Ok, in order
    io,           \* what connect_to returned: NotReturned while it is running
    channels,     \* the four flume channels: the records sent and not yet received
    forwarded,    \* per channel, the records the read path has sent
    received      \* per channel, the records the write path has received

offlineVars == <<max_pending, pending, connected, sending, yielded, lastOp>>
resendVars == <<map, last_record_expired_at, now, buffer, lastCall, outstanding>>
codecVars == <<wire, written, pack_id, reader>>
linkVars == <<reachable, submitted, outgoing, next_seq_num, net, to_ack, acks,
              parted, expected, reorder, delivered>>
closeVars == <<client, server, reply, ended>>
addrVars == <<addr_buf, addr_put, addr_got>>
clientVars == <<lookups, chosen, stage, completed, io, channels, forwarded, received>>
vars == <<max_pending, pending, connected, sending, yielded, lastOp,
          map, last_record_expired_at, now, buffer, lastCall, outstanding,
          wire, written, pack_id, reader,
          reachable, submitted, outgoing, next_seq_num, net, to_ack, acks,
          parted, expected, reorder, delivered,
          client, server, reply, ended,
          addr_buf, addr_put, addr_got,
          lookups, chosen, stage, completed, io, channels, forwarded, received>>

(***************************************************************************)
(* Bounds of the model.                                                    *)
(***************************************************************************)
\* remote socket addresses 1..NumAddrs
NumAddrs == 2

Addrs == 1..NumAddrs

(***************************************************************************)
(* The codec before its first write and read.                              *)
(***************************************************************************)
NoPackId == "None"

NotRead == [ok |-> FALSE, err |-> "NotRead", id |-> 0]

\* no address: nothing was put in the buffer, or no socket is connected
NoSocketAddr == [v |-> 0]

\* get_socket_addr has not been called on the bytes in the buffer
NoAddrRead == [res |-> NotRead, rest |-> << >>]

\* connect_to has not returned
NotReturned == [ok |-> FALSE, err |-> "NotReturned"]

\* the channels connect_to creates, named by their sending ends
Channels == {"incoming_ack", "incoming_nack", "outgoing_ack", "outgoing_nack"}

(***************************************************************************)
(* The connected link before its first message.                            *)
(***************************************************************************)
\* the user submits the messages 1..MaxMsgs, in this order
MaxMsgs == 2

Msgs == 1..MaxMsgs

\* Reassembler: no parted_id has a slab
NoParts == [m \in Msgs |-> << >>]

(***************************************************************************)
(* Config of the server: the values of test_offline_handshake_works.       *)
(* max_pending is drawn from MaxPendingInputs when the handler is built:   *)
(* a capacity the addresses exceed (the LRU evicts) and one more.          *)
(***************************************************************************)
sever_guid == 1919810

advertisement == "hello"

min_mtu == 800

max_mtu == 1400

support_version == <<8, 11, 12>>

MaxPendingInputs == {1, 2}

(***************************************************************************)
(* Inputs: the fields of the inbound packets.                              *)
(***************************************************************************)
\* protocol_version of OpenConnectionRequest1: the ends of support_version, one
\* between its entries and one above them
VersionInputs == {8, 9, 12, 13}

\* mtu of OpenConnectionRequest1/2: below min_mtu, the two ends, above max_mtu
MtuInputs == {min_mtu - 1, min_mtu, max_mtu, max_mtu + 1}

\* send_timestamp of UnconnectedPing
TimestampInputs == {0, 7}

\* the connected family: connected::Packet::{FrameSet, Ack, Nack}
ConnectedKinds == {"FrameSet", "Ack", "Nack"}

\* unconnected packets a server does not expect (the `_` arm)
OtherKinds == {"UnconnectedPong", "OpenConnectionReply1"}

(***************************************************************************)
(* Values.                                                                 *)
(***************************************************************************)
NoSend == [kind |-> "None"]

NoItem == [kind |-> "None"]

EndOfStream == [kind |-> "End"]

\* ver, mtu: the protocol_version and the mtu the handler read from the packet
\* (0 when it read none); evicted: the addresses pending.put dropped
NoOp == [op |-> "None", addr |-> 0, ver |-> 0, mtu |-> 0, evicted |-> {}]

Peer(addr, mtu) == [addr |-> addr, mtu |-> mtu]

\* this.frame.send((packet, addr))
Send(packet, addr) == [kind |-> "Send", packet |-> packet, addr |-> addr]

Min(a, b) == IF a < b THEN a ELSE b

Max(a, b) == IF a > b THEN a ELSE b

(***************************************************************************)
(* lru::LruCache<SocketAddr, u8> as a sequence, most recently used first.  *)
(***************************************************************************)
LruContains(c, k) == \E i \in DOMAIN c : c[i].addr = k

LruRemove(c, k) == SelectSeq(c, LAMBDA e : e.addr /= k)

\* LruCache::put without moving a key that is already present
LruPut_NoRefresh(c, k, v) ==
    IF LruContains(c, k)
    THEN [i \in DOMAIN c |-> IF c[i].addr = k THEN [addr |-> k, ver |-> v] ELSE c[i]]
    ELSE IF Len(c) >= max_pending
         THEN <<[addr |-> k, ver |-> v]>> \o SubSeq(c, 1, Len(c) - 1)
         ELSE <<[addr |-> k, ver |-> v]>> \o c

\* LruCache::put: update and move to the front, or insert, evicting the least
\* recently used entry when the cache is at capacity
LruPut(c, k, v) ==
    IF LruContains(c, k)
    THEN <<[addr |-> k, ver |-> v]>> \o LruRemove(c, k)
    ELSE IF Len(c) >= max_pending
         THEN <<[addr |-> k, ver |-> v]>> \o SubSeq(c, 1, Len(c) - 1)
         ELSE <<[addr |-> k, ver |-> v]>> \o c

\* a pop that leaves the entry in the cache
LruPop_Keep(c, k) == c

\* LruCache::pop
LruPop(c, k) == LruRemove(c, k)

\* the keys of the cache
LruKeys(c) == {c[i].addr : i \in DOMAIN c}

(***************************************************************************)
(* slice::binary_search(&x).is_ok() on a sorted slice s, over the          *)
(* half-open index window [lo, hi).                                        *)
(***************************************************************************)
RECURSIVE BinarySearch(_, _, _, _)
BinarySearch(s, x, lo, hi) ==
    IF lo >= hi THEN FALSE
    ELSE LET mid == lo + ((hi - lo) \div 2)
         IN  IF s[mid] = x THEN TRUE
             ELSE IF s[mid] < x THEN BinarySearch(s, x, mid + 1, hi)
             ELSE BinarySearch(s, x, lo, mid)

binary_search(s, x) == BinarySearch(s, x, 1, Len(s) + 1)


(***************************************************************************)
(* Replies of the server.                                                  *)
(***************************************************************************)
\* make_incompatible_version with the first entry of support_version
make_incompatible_version_First ==
    [kind |-> "IncompatibleProtocol",
     server_protocol |-> support_version[1],
     server_guid |-> sever_guid]

\* make_incompatible_version: server_protocol = *support_version.last().unwrap()
make_incompatible_version ==
    [kind |-> "IncompatibleProtocol",
     server_protocol |-> support_version[Len(support_version)],
     server_guid |-> sever_guid]

make_already_connected ==
    [kind |-> "AlreadyConnected", server_guid |-> sever_guid]

\* make_connection_request_failed building the AlreadyConnected packet
make_connection_request_failed_Already ==
    [kind |-> "AlreadyConnected", server_guid |-> sever_guid]

make_connection_request_failed ==
    [kind |-> "ConnectionRequestFailed", server_guid |-> sever_guid]

\* UnconnectedPong that does not echo the ping's timestamp
UnconnectedPong_NoEcho(send_timestamp) ==
    [kind |-> "UnconnectedPong", send_timestamp |-> 0,
     server_guid |-> sever_guid, data |-> advertisement]

UnconnectedPong(send_timestamp) ==
    [kind |-> "UnconnectedPong", send_timestamp |-> send_timestamp,
     server_guid |-> sever_guid, data |-> advertisement]

\* final_mtu without the lower clamp
final_mtu_NoLower(mtu) == Min(max_mtu, mtu)

\* final_mtu = max_mtu.min(min_mtu.max(mtu))
final_mtu(mtu) == Min(max_mtu, Max(min_mtu, mtu))

OpenConnectionReply1(mtu) ==
    [kind |-> "OpenConnectionReply1", server_guid |-> sever_guid,
     use_encryption |-> FALSE, mtu |-> final_mtu(mtu)]

\* OpenConnectionReply2 that answers with the server's upper bound
OpenConnectionReply2_MaxMtu(addr, mtu) ==
    [kind |-> "OpenConnectionReply2", server_guid |-> sever_guid,
     client_address |-> addr, mtu |-> max_mtu, encryption_enabled |-> FALSE]

OpenConnectionReply2(addr, mtu) ==
    [kind |-> "OpenConnectionReply2", server_guid |-> sever_guid,
     client_address |-> addr, mtu |-> mtu, encryption_enabled |-> FALSE]

(***************************************************************************)
(* The conditions of poll_next.                                            *)
(***************************************************************************)
\* this.connected.get(&addr) is Some / this.connected.contains_key(&addr)
IsConnected(addr) == addr \in DOMAIN connected

\* !this.config.support_version.binary_search(&protocol_version).is_err()
VersionSupported(protocol_version) == binary_search(support_version, protocol_version)

\* the Request2 check without popping the pending entry first
HasRequest1_Always(addr) == TRUE

\* this.pending.pop(&addr) is Some
HasRequest1(addr) == LruContains(pending, addr)

\* the Request2 check without the tests of the mtu
Request2Refused_NoRange(addr, mtu) == addr \in DOMAIN connected

\* the Request2 check without the contains_key test
Request2Refused_NoDup(addr, mtu) == mtu < min_mtu \/ mtu > max_mtu

\* mtu < min_mtu || mtu > max_mtu || this.connected.contains_key(&addr)
Request2Refused(addr, mtu) ==
    mtu < min_mtu \/ mtu > max_mtu \/ addr \in DOMAIN connected

\* the insert storing the mtu the server would have offered for max_mtu
ConnectedInsert_MaxMtu(addr, mtu) ==
    [a \in DOMAIN connected \cup {addr} |->
        IF a = addr THEN Peer(addr, max_mtu) ELSE connected[a]]

\* this.connected.insert(addr, Peer { addr, mtu })
ConnectedInsert(addr, mtu) ==
    [a \in DOMAIN connected \cup {addr} |->
        IF a = addr THEN Peer(addr, mtu) ELSE connected[a]]

\* a disconnect that leaves the Peer in the table
ConnectedRemove_Keep(addr) == connected

\* a disconnect that clears the table
ConnectedRemove_All(addr) == << >>

\* this.connected.remove(addr)
ConnectedRemove(addr) == [a \in DOMAIN connected \ {addr} |-> connected[a]]

(***************************************************************************)
(* OfflineHandler::poll_next, one action per inbound packet.  The loop     *)
(* polls `sending` to completion before it polls the frame, so every       *)
(* action that takes a packet requires sending = NoSend.                   *)
(***************************************************************************)
\* ready!(sending.poll_unpin(cx)) is Ready (Ok, or Err which is only logged);
\* *this.sending = None
SendDone ==
    /\ sending /= NoSend
    /\ sending' = NoSend
    /\ UNCHANGED <<pending, connected, yielded, lastOp>>

\* the end of the frame taken while a send is still to complete
RecvEnd_Early ==
    /\ yielded' = EndOfStream
    /\ lastOp' = [NoOp EXCEPT !.op = "End"]
    /\ UNCHANGED <<pending, connected, sending>>

\* this.frame.poll_next is Ready(None): return Poll::Ready(None)
RecvEnd ==
    /\ sending = NoSend
    /\ yielded' = EndOfStream
    /\ lastOp' = [NoOp EXCEPT !.op = "End"]
    /\ UNCHANGED <<pending, connected, sending>>

\* Packet::Connected(pack) from addr
RecvConnected(addr, pack) ==
    /\ sending = NoSend
    /\ lastOp' = [NoOp EXCEPT !.op = "Connected", !.addr = addr]
    /\ IF IsConnected(addr)
       THEN /\ yielded' = [kind |-> "Item", pack |-> pack, peer |-> connected[addr]]
            /\ sending' = NoSend
       ELSE /\ yielded' = NoItem
            /\ sending' = Send(make_connection_request_failed, addr)
    /\ UNCHANGED <<pending, connected>>

\* unconnected::Packet::UnconnectedPing { send_timestamp, .. } from addr
RecvUnconnectedPing(addr, send_timestamp) ==
    /\ sending = NoSend
    /\ lastOp' = [NoOp EXCEPT !.op = "UnconnectedPing", !.addr = addr]
    /\ sending' = Send(UnconnectedPong(send_timestamp), addr)
    /\ yielded' = NoItem
    /\ UNCHANGED <<pending, connected>>

\* unconnected::Packet::OpenConnectionRequest1 { protocol_version, mtu, .. } from addr
RecvOpenConnectionRequest1(addr, protocol_version, mtu) ==
    /\ sending = NoSend
    /\ yielded' = NoItem
    /\ IF ~VersionSupported(protocol_version)
       THEN /\ sending' = Send(make_incompatible_version, addr)
            /\ UNCHANGED <<pending, connected>>
       ELSE /\ pending' = LruPut(pending, addr, protocol_version)
            /\ sending' = Send(OpenConnectionReply1(mtu), addr)
            /\ UNCHANGED connected
    /\ lastOp' = [NoOp EXCEPT !.op = "OpenConnectionRequest1", !.addr = addr,
                              !.ver = protocol_version,
                              !.mtu = IF VersionSupported(protocol_version)
                                      THEN mtu ELSE 0,
                              !.evicted = LruKeys(pending) \ LruKeys(pending')]

\* unconnected::Packet::OpenConnectionRequest2 { mtu, .. } from addr
RecvOpenConnectionRequest2(addr, mtu) ==
    /\ sending = NoSend
    /\ lastOp' = [NoOp EXCEPT !.op = "OpenConnectionRequest2", !.addr = addr,
                              !.mtu = mtu]
    /\ yielded' = NoItem
    /\ IF ~HasRequest1(addr)
       THEN /\ sending' = Send(make_incompatible_version, addr)
            /\ pending' = LruPop(pending, addr)
            /\ UNCHANGED connected
       ELSE /\ pending' = LruPop(pending, addr)
            /\ IF Request2Refused(addr, mtu)
               THEN /\ sending' = Send(make_already_connected, addr)
                    /\ UNCHANGED connected
               ELSE /\ connected' = ConnectedInsert(addr, mtu)
                    /\ sending' = Send(OpenConnectionReply2(addr, mtu), addr)

\* the `_` arm answering like the arm of an unsupported version
RecvOther_Reply(addr, pack) ==
    /\ sending = NoSend
    /\ lastOp' = [NoOp EXCEPT !.op = "Other", !.addr = addr]
    /\ yielded' = NoItem
    /\ sending' = Send(make_incompatible_version, addr)
    /\ UNCHANGED <<pending, connected>>

\* any other unconnected packet: warn!(..); continue
RecvOther(addr, pack) ==
    /\ sending = NoSend
    /\ lastOp' = [NoOp EXCEPT !.op = "Other", !.addr = addr]
    /\ yielded' = NoItem
    /\ UNCHANGED <<pending, connected, sending>>

\* OfflineHandler::disconnect(addr)
disconnect(addr) ==
    /\ pending' = LruPop(pending, addr)
    /\ connected' = ConnectedRemove(addr)
    /\ UNCHANGED <<sending, yielded, lastOp>>

(***************************************************************************)
(* The specification of the OfflineHandler.                                *)
(***************************************************************************)
\* handle_offline(config), and ResendMap::new
Init ==
    /\ max_pending \in MaxPendingInputs
    /\ pending = << >>
    /\ connected = << >>
    /\ sending = NoSend
    /\ yielded = NoItem
    /\ lastOp = NoOp
    /\ map = << >>
    /\ last_record_expired_at = 0
    /\ now = 0
    /\ buffer = << >>
    /\ lastCall = [op |-> "new", hit |-> FALSE]
    /\ outstanding = {}
    /\ wire = 0
    /\ written = NoPackId
    /\ pack_id = NotRead
    /\ reader = NotRead
    /\ reachable = TRUE
    /\ submitted = 0
    /\ outgoing = << >>
    /\ next_seq_num = 0
    /\ net = {}
    /\ to_ack = {}
    /\ acks = {}
    /\ parted = NoParts
    /\ expected = 1
    /\ reorder = << >>
    /\ delivered = << >>
    /\ client = "Open"
    /\ server = "Open"
    /\ reply = "None"
    /\ ended = {}
    /\ addr_buf = << >>
    /\ addr_put = NoSocketAddr
    /\ addr_got = NoAddrRead
    /\ lookups = << >>
    /\ chosen = NoSocketAddr
    /\ stage = "to_socket_addrs"
    /\ completed = << >>
    /\ io = NotReturned
    /\ channels = [c \in Channels |-> << >>]
    /\ forwarded = [c \in Channels |-> << >>]
    /\ received = [c \in Channels |-> << >>]

Next ==
    \/ SendDone /\ UNCHANGED <<max_pending, resendVars, codecVars, addrVars, clientVars, linkVars, closeVars>>
    \/ RecvEnd /\ UNCHANGED <<max_pending, resendVars, codecVars, addrVars, clientVars, linkVars, closeVars>>
    \/ \E addr \in Addrs, pack \in ConnectedKinds :
          RecvConnected(addr, pack) /\ UNCHANGED <<max_pending, resendVars, codecVars, addrVars, clientVars, linkVars, closeVars>>
    \/ \E addr \in Addrs, ts \in TimestampInputs :
          RecvUnconnectedPing(addr, ts) /\ UNCHANGED <<max_pending, resendVars, codecVars, addrVars, clientVars, linkVars, closeVars>>
    \/ \E addr \in Addrs, ver \in VersionInputs, mtu \in MtuInputs :
          RecvOpenConnectionRequest1(addr, ver, mtu) /\ UNCHANGED <<max_pending, resendVars, codecVars, addrVars, clientVars, linkVars, closeVars>>
    \/ \E addr \in Addrs, mtu \in MtuInputs :
          RecvOpenConnectionRequest2(addr, mtu) /\ UNCHANGED <<max_pending, resendVars, codecVars, addrVars, clientVars, linkVars, closeVars>>
    \/ \E addr \in Addrs, pack \in OtherKinds :
          RecvOther(addr, pack) /\ UNCHANGED <<max_pending, resendVars, codecVars, addrVars, clientVars, linkVars, closeVars>>
    \/ \E addr \in Addrs : disconnect(addr) /\ UNCHANGED <<max_pending, resendVars, codecVars, addrVars, clientVars, linkVars, closeVars>>

Spec == Init /\ [][Next]_vars


(***************************************************************************)
(* ResendMap (src/src/resend_map.rs).                                      *)
(***************************************************************************)
\* outbound seq_nums 0..MaxSeq
MaxSeq == 1

\* the clock runs from 0 to MaxTime, in half seconds
MaxTime == 2

\* const RTO: Duration = Duration::from_secs(1), in half seconds
RTO == 2

Seqs == 0..MaxSeq

\* the frames of frame set seq_num, a frame being (seq_num, position): one
\* frame in an even frame set, two in an odd one
FramesInputs(seq_num) ==
    IF seq_num % 2 = 0
    THEN {<<<<seq_num, 1>>>>}
    ELSE {<<<<seq_num, 1>>, <<seq_num, 2>>>>}

\* a frame the caller had queued before the call
QueuedFrame == <<0, 0>>

\* the caller's buffer when it calls on_nack_into or process_stales: it holds
\* a frame already, so that what the call appends is told from what it found
BufferInputs == {<<QueuedFrame>>}

Single(seq_num) == [kind |-> "Single", start |-> seq_num, end |-> seq_num]

Range(start, end) == [kind |-> "Range", start |-> start, end |-> end]

\* Record values: every Single, every Range with start <= end, and one Range
\* with start > end (which covers nothing)
RecordInputs ==
    {Single(s) : s \in Seqs}
        \cup {r \in {Range(a, b) : a \in Seqs, b \in Seqs} : r.start <= r.end}
        \cup {Range(MaxSeq, 0)}

\* AckOrNack.records: the empty list, every one-record list, every list of
\* two different Singles and every list of a Single and a Range of two or more
\* seq_nums, in either order (sorted or not, overlapping or not)
AckOrNackInputs ==
    {<< >>} \cup {<<r>> : r \in RecordInputs}
            \cup {l \in {<<r1, r2>> : r1 \in RecordInputs, r2 \in RecordInputs} :
                      /\ l[1] /= l[2]
                      /\ l[1].kind = "Single" \/ l[2].kind = "Single"
                      /\ \A i \in 1..2 : l[i].kind = "Range" => l[i].start < l[i].end}

ResendEntry(frames, expired_at) == [frames |-> frames, expired_at |-> expired_at]

\* HashMap::insert
MapInsert(m, k, v) == [x \in DOMAIN m \cup {k} |-> IF x = k THEN v ELSE m[x]]

\* HashMap::remove
MapRemove(m, k) == IF k \in DOMAIN m THEN [x \in DOMAIN m \ {k} |-> m[x]] ELSE m

\* a range loop that stops one short of `end`
RECURSIVE AckRange_Exclusive(_, _, _)
AckRange_Exclusive(m, i, end) ==
    IF i >= end THEN m ELSE AckRange_Exclusive(MapRemove(m, i), i + 1, end)

\* for i in start.to_u32()..=end.to_u32() { self.map.remove(&i.into()); }
RECURSIVE AckRange(_, _, _)
AckRange(m, i, end) ==
    IF i > end THEN m ELSE AckRange(MapRemove(m, i), i + 1, end)

\* on_ack: for record in ack.records { match record { Range | Single } }
RECURSIVE AckRecords(_, _)
AckRecords(m, records) ==
    IF records = << >> THEN m
    ELSE LET record == Head(records)
             after == IF record.kind = "Range"
                      THEN AckRange(m, record.start, record.end)
                      ELSE MapRemove(m, record.start)
         IN  AckRecords(after, Tail(records))

\* the range loop putting the frames at the front of the buffer
RECURSIVE NackRange_Prepend(_, _, _)
NackRange_Prepend(mb, i, end) ==
    IF i > end THEN mb
    ELSE LET m == mb[1]
             b == mb[2]
         IN  NackRange_Prepend(IF i \in DOMAIN m
                               THEN <<MapRemove(m, i), m[i].frames \o b>>
                               ELSE mb,
                               i + 1, end)

\* the range loop reading the entry with get instead of remove
RECURSIVE NackRange_KeepEntry(_, _, _)
NackRange_KeepEntry(mb, i, end) ==
    IF i > end THEN mb
    ELSE LET m == mb[1]
             b == mb[2]
         IN  NackRange_KeepEntry(IF i \in DOMAIN m
                                 THEN <<m, b \o m[i].frames>>
                                 ELSE mb,
                                 i + 1, end)

\* for i in start..=end { if let Some(entry) = self.map.remove(&i) { buffer.extend(..) } }
\* on the pair <<map, buffer>>
RECURSIVE NackRange(_, _, _)
NackRange(mb, i, end) ==
    IF i > end THEN mb
    ELSE LET m == mb[1]
             b == mb[2]
         IN  NackRange(IF i \in DOMAIN m
                       THEN <<MapRemove(m, i), b \o m[i].frames>>
                       ELSE mb,
                       i + 1, end)

\* on_nack_into: for record in nack.records { .. } on the pair <<map, buffer>>
RECURSIVE NackRecords(_, _)
NackRecords(mb, records) ==
    IF records = << >> THEN mb
    ELSE LET record == Head(records)
         IN  NackRecords(NackRange(mb, record.start, record.end), Tail(records))

\* the seq_nums the records of an AckOrNack cover
Covered(records) ==
    UNION {records[i].start..records[i].end : i \in DOMAIN records}

\* the seq_nums a call removed from the map
Removed(before, after) == DOMAIN before \ DOMAIN after

\* the test of process_stales leaving out the entries that expire right now
Stale_Strict(m, t) == {k \in DOMAIN m : m[k].expired_at < t}

\* the entries process_stales moves: entry.expired_at <= now
Stale(m, t) == {k \in DOMAIN m : m[k].expired_at <= t}

\* the latest instant of the set instead of the earliest
MinOf_Latest(S) == CHOOSE x \in S : \A y \in S : y <= x

MinOf(S) == CHOOSE x \in S : \A y \in S : x <= y

\* min_by_key taking the latest deadline
MinExpiredAt_Latest(m) ==
    CHOOSE x \in {m[k].expired_at : k \in DOMAIN m} :
        \A k \in DOMAIN m : m[k].expired_at <= x

\* self.map.iter().min_by_key(|(_, entry)| entry.expired_at): its expired_at
MinExpiredAt(m) == MinOf({m[k].expired_at : k \in DOMAIN m})

\* the frames of the first entry `order` lists only
FramesInOrder_First(m, order) ==
    IF order = << >> THEN << >> ELSE m[Head(order)].frames

\* the frames of the entries `order` lists, concatenated in that order
RECURSIVE FramesInOrder(_, _)
FramesInOrder(m, order) ==
    IF order = << >> THEN << >>
    ELSE m[Head(order)].frames \o FramesInOrder(m, Tail(order))

\* the orders in which HashMap::retain may visit the keys of S
Orders(S) ==
    {o \in [1..Cardinality(S) -> S] : \A i, j \in 1..Cardinality(S) : i /= j => o[i] /= o[j]}

\* ResendMap::record(seq_num, frames)
record(seq_num, frames) ==
    /\ lastCall' = [op |-> "record", hit |-> FALSE]
    /\ map' = MapInsert(map, seq_num, ResendEntry(frames, now + RTO))
    /\ outstanding' = outstanding \cup {seq_num}
    /\ buffer' = << >>
    /\ UNCHANGED <<last_record_expired_at, now>>

\* ResendMap::on_ack(ack)
on_ack(ack) ==
    /\ map' = AckRecords(map, ack)
    /\ lastCall' = [op |-> "on_ack", hit |-> Removed(map, map') /= {}]
    /\ outstanding' = outstanding \ Covered(ack)
    /\ buffer' = << >>
    /\ UNCHANGED <<last_record_expired_at, now>>

\* ResendMap::on_nack_into(nack, buffer), the caller's buffer holding buffer_in
on_nack_into(nack, buffer_in) ==
    /\ LET mb == NackRecords(<<map, buffer_in>>, nack)
       IN  /\ map' = mb[1]
           /\ buffer' = mb[2]
    /\ lastCall' = [op |-> "on_nack_into", hit |-> Removed(map, map') /= {}]
    /\ outstanding' = outstanding \ Covered(nack)
    /\ UNCHANGED <<last_record_expired_at, now>>

\* ResendMap::process_stales(buffer), the caller's buffer holding buffer_in
process_stales(buffer_in) ==
    /\ IF now < last_record_expired_at
       THEN /\ buffer' = buffer_in
            /\ UNCHANGED <<map, last_record_expired_at>>
       ELSE LET stale == Stale(map, now)
                kept == DOMAIN map \ stale
                min_expired_at ==
                    MinOf({now + RTO} \cup {map[k].expired_at : k \in kept})
            IN  /\ \E order \in Orders(stale) :
                      buffer' = buffer_in \o FramesInOrder(map, order)
                /\ map' = [k \in kept |-> map[k]]
                /\ last_record_expired_at' = min_expired_at
    /\ lastCall' = [op |-> "process_stales", hit |-> Removed(map, map') /= {}]
    /\ outstanding' = outstanding
                         \ {buffer'[i][1] : i \in (Len(buffer_in) + 1)..Len(buffer')}
    /\ UNCHANGED now

\* a poll_wait that never waits
ShouldWait_Never(m, t) == FALSE

\* the timer poll_wait arms with a deadline that may already have passed
ShouldWait_NonStrict(m, t) == m /= << >> /\ MinExpiredAt(m) >= t

\* let Some((seq, entry)) = self.map.iter().min_by_key(..) && entry.expired_at > now
ShouldWait(m, t) == m /= << >> /\ MinExpiredAt(m) > t

\* ResendMap::poll_wait(cx): Poll::Pending after Reactor::insert_timer(guid,
\* expired_at, waker), or Poll::Ready(()); timers: the deadlines it registered
poll_wait ==
    /\ lastCall' = IF ShouldWait(map, now)
                   THEN [op |-> "poll_wait", hit |-> FALSE, ready |-> FALSE,
                         timers |-> {MinExpiredAt(map)}]
                   ELSE [op |-> "poll_wait", hit |-> FALSE, ready |-> TRUE,
                         timers |-> {}]
    /\ buffer' = << >>
    /\ UNCHANGED <<map, last_record_expired_at, now, outstanding>>

\* the clock advances
Tick ==
    /\ now < MaxTime
    /\ now' = now + 1
    /\ UNCHANGED <<map, last_record_expired_at, buffer, lastCall, outstanding>>

NextResend ==
    \/ \E seq_num \in Seqs : \E frames \in FramesInputs(seq_num) :
          record(seq_num, frames) /\ UNCHANGED <<offlineVars, codecVars, addrVars, clientVars, linkVars, closeVars>>
    \/ \E ack \in AckOrNackInputs : on_ack(ack) /\ UNCHANGED <<offlineVars, codecVars, addrVars, clientVars, linkVars, closeVars>>
    \/ \E nack \in AckOrNackInputs, buffer_in \in BufferInputs :
          on_nack_into(nack, buffer_in) /\ UNCHANGED <<offlineVars, codecVars, addrVars, clientVars, linkVars, closeVars>>
    \/ \E buffer_in \in BufferInputs : process_stales(buffer_in) /\ UNCHANGED <<offlineVars, codecVars, addrVars, clientVars, linkVars, closeVars>>
    \/ poll_wait /\ UNCHANGED <<offlineVars, codecVars, addrVars, clientVars, linkVars, closeVars>>
    \/ Tick /\ UNCHANGED <<offlineVars, codecVars, addrVars, clientVars, linkVars, closeVars>>

SpecResend == Init /\ [][NextResend]_vars

(***************************************************************************)
(* The packet ids (src/src/packet/mod.rs).                                 *)
(***************************************************************************)
\* u8
Bytes == 0..255

\* 0b100_000...
VALID_FLAG == 128

\* 0b110_000...: VALID_FLAG | 0x40, and VALID_FLAG has no 0x40 bit
ACK_FLAG == VALID_FLAG + 64

\* 0b101_000...: VALID_FLAG | 0x20, and VALID_FLAG has no 0x20 bit
NACK_FLAG == VALID_FLAG + 32

\* enum PackId with its #[repr(u8)] discriminants, in the order of declaration
PackId ==
    << <<"ConnectedPing", 0>>, <<"UnconnectedPing1", 1>>,
       <<"UnconnectedPing2", 2>>, <<"ConnectedPong", 3>>,
       <<"LostConnections", 4>>, <<"OpenConnectionRequest1", 5>>,
       <<"OpenConnectionReply1", 6>>, <<"OpenConnectionRequest2", 7>>,
       <<"OpenConnectionReply2", 8>>, <<"ConnectionRequest", 9>>,
       <<"ConnectionRequestAccepted", 16>>, <<"ConnectionRequestFailed", 17>>,
       <<"AlreadyConnected", 18>>, <<"NewIncomingConnection", 19>>,
       <<"NoFreeIncomingConnections", 20>>, <<"DisconnectNotification", 21>>,
       <<"ConnectionLost", 22>>, <<"ConnectionBanned", 23>>,
       <<"IncompatibleProtocolVersion", 25>>, <<"IpRecentlyConnected", 26>>,
       <<"Timestamp", 27>>, <<"UnconnectedPong", 28>>,
       <<"AdvertiseSystem", 29>>, <<"Game", 254>>,
       <<"Ack", ACK_FLAG>>, <<"Nack", NACK_FLAG>>, <<"FrameSet", VALID_FLAG>> >>

PackIds == {PackId[i][1] : i \in DOMAIN PackId}

Ok(v) == [ok |-> TRUE, v |-> v]

\* CodecError::InvalidPacketId(id)
InvalidPacketId(id) == [ok |-> FALSE, err |-> "InvalidPacketId", id |-> id]

\* impl From<PackId> for u8: value as u8
u8_from(value) == LET i == CHOOSE i \in DOMAIN PackId : PackId[i][1] = value
                  IN  PackId[i][2]

\* PackId::from_u8 with the two flag ranges tried in the other order
from_u8_NackFirst(id) ==
    IF id = 0 THEN Ok("ConnectedPing")
    ELSE IF id = 1 THEN Ok("UnconnectedPing1")
    ELSE IF id = 2 THEN Ok("UnconnectedPing2")
    ELSE IF id = 3 THEN Ok("ConnectedPong")
    ELSE IF id = 4 THEN Ok("LostConnections")
    ELSE IF id = 5 THEN Ok("OpenConnectionRequest1")
    ELSE IF id = 6 THEN Ok("OpenConnectionReply1")
    ELSE IF id = 7 THEN Ok("OpenConnectionRequest2")
    ELSE IF id = 8 THEN Ok("OpenConnectionReply2")
    ELSE IF id = 9 THEN Ok("ConnectionRequest")
    ELSE IF id = 16 THEN Ok("ConnectionRequestAccepted")
    ELSE IF id = 18 THEN Ok("AlreadyConnected")
    ELSE IF id = 19 THEN Ok("NewIncomingConnection")
    ELSE IF id = 21 THEN Ok("DisconnectNotification")
    ELSE IF id = 25 THEN Ok("IncompatibleProtocolVersion")
    ELSE IF id = 28 THEN Ok("UnconnectedPong")
    ELSE IF id = 254 THEN Ok("Game")
    ELSE IF id >= NACK_FLAG THEN Ok("Nack")
    ELSE IF id >= ACK_FLAG THEN Ok("Ack")
    ELSE IF id >= VALID_FLAG THEN Ok("FrameSet")
    ELSE InvalidPacketId(id)

\* PackId::from_u8: the arms of the match in their order, the first that
\* matches wins (0x10 = 16, 0x12 = 18, 0x13 = 19, 0x15 = 21, 0x19 = 25,
\* 0x1c = 28, 0xfe = 254; the range X.. is X..=255)
from_u8(id) ==
    IF id = 0 THEN Ok("ConnectedPing")
    ELSE IF id = 1 THEN Ok("UnconnectedPing1")
    ELSE IF id = 2 THEN Ok("UnconnectedPing2")
    ELSE IF id = 3 THEN Ok("ConnectedPong")
    ELSE IF id = 4 THEN Ok("LostConnections")
    ELSE IF id = 5 THEN Ok("OpenConnectionRequest1")
    ELSE IF id = 6 THEN Ok("OpenConnectionReply1")
    ELSE IF id = 7 THEN Ok("OpenConnectionRequest2")
    ELSE IF id = 8 THEN Ok("OpenConnectionReply2")
    ELSE IF id = 9 THEN Ok("ConnectionRequest")
    ELSE IF id = 16 THEN Ok("ConnectionRequestAccepted")
    ELSE IF id = 18 THEN Ok("AlreadyConnected")
    ELSE IF id = 19 THEN Ok("NewIncomingConnection")
    ELSE IF id = 21 THEN Ok("DisconnectNotification")
    ELSE IF id = 25 THEN Ok("IncompatibleProtocolVersion")
    ELSE IF id = 28 THEN Ok("UnconnectedPong")
    ELSE IF id = 254 THEN Ok("Game")
    ELSE IF id >= ACK_FLAG THEN Ok("Ack")
    ELSE IF id >= NACK_FLAG THEN Ok("Nack")
    ELSE IF id >= VALID_FLAG THEN Ok("FrameSet")
    ELSE InvalidPacketId(id)

is_frame_set(p) == p = "FrameSet"

is_ack(p) == p = "Ack"

is_nack(p) == p = "Nack"

\* Packet::read after the first byte: the reader the body is handed to, or the
\* error it returns; r is the result of the byte's try_into
Dispatch(r) ==
    IF ~r.ok THEN r
    ELSE IF is_frame_set(r.v) THEN Ok("connected::read_frame_set")
    ELSE IF is_ack(r.v) THEN Ok("connected::read_ack")
    ELSE IF is_nack(r.v) THEN Ok("connected::read_nack")
    ELSE IF r.v \in {"UnconnectedPing1", "UnconnectedPing2"}
         THEN Ok("unconnected::read_unconnected_ping")
    ELSE IF r.v = "UnconnectedPong" THEN Ok("unconnected::read_unconnected_pong")
    ELSE IF r.v = "OpenConnectionRequest1"
         THEN Ok("unconnected::read_open_connection_request1")
    ELSE IF r.v = "OpenConnectionReply1"
         THEN Ok("unconnected::read_open_connection_reply1")
    ELSE IF r.v = "IncompatibleProtocolVersion"
         THEN Ok("unconnected::read_incompatible_protocol")
    ELSE IF r.v = "AlreadyConnected" THEN Ok("unconnected::read_already_connected")
    ELSE IF r.v = "OpenConnectionRequest2"
         THEN Ok("unconnected::read_open_connection_request2")
    ELSE IF r.v = "OpenConnectionReply2"
         THEN Ok("unconnected::read_open_connection_reply2")
    ELSE InvalidPacketId(u8_from(r.v))

\* Packet::write puts the packet's id first
write(id) ==
    /\ wire' = u8_from(id)
    /\ written' = id
    /\ pack_id' = NotRead
    /\ reader' = NotRead

\* a datagram of some peer arrives: any first byte
recv(byte) ==
    /\ wire' = byte
    /\ written' = NoPackId
    /\ pack_id' = NotRead
    /\ reader' = NotRead

\* Packet::read on a buffer that is not empty
read ==
    /\ pack_id' = from_u8(wire)
    /\ reader' = Dispatch(from_u8(wire))
    /\ UNCHANGED <<wire, written>>

NextCodec ==
    \/ \E id \in PackIds : write(id) /\ UNCHANGED <<offlineVars, resendVars, linkVars, closeVars, addrVars, clientVars>>
    \/ \E byte \in Bytes : recv(byte) /\ UNCHANGED <<offlineVars, resendVars, linkVars, closeVars, addrVars, clientVars>>
    \/ read /\ UNCHANGED <<offlineVars, resendVars, linkVars, closeVars, addrVars, clientVars>>

SpecCodec == Init /\ [][NextCodec]_vars

(***************************************************************************)
(* The connected link (spec.md 4.3 - 4.8): one side's writer, ResendMap    *)
(* and resender, the datagrams in flight, and the peer's OutgoingAck,      *)
(* Reassembler and OrderedChannels.  The messages are ReliableOrdered on   *)
(* channel 0; message m has ordered_frame_index m.                         *)
(***************************************************************************)
\* the frames message m goes in: an odd message is larger than the MTU and is
\* sent as two fragments, an even one fits a frame
Fragments(m) == IF m % 2 = 1 THEN 2 ELSE 1

\* the frames of message m, a frame being (ordered_frame_index, parted_index),
\* parted_index 0 when the frame is not a fragment
FramesOf(m) ==
    IF Fragments(m) = 1 THEN << <<m, 0>> >>
    ELSE [i \in 1..Fragments(m) |-> <<m, i>>]

\* FrameSet { seq_num, frames }
FrameSetOf(seq_num, frames) == [seq_num |-> seq_num, frames |-> frames]

\* every frame the user may submit
AllFrames == UNION {{FramesOf(m)[i] : i \in DOMAIN FramesOf(m)} : m \in Msgs}

\* The seq_nums of the link wrap after Window of them: one for every frame
\* that can be in the ResendMap at a time.
Window == Cardinality(AllFrames)

\* the user hands the next message to the sink: the writer fragments it and
\* queues its frames
submit ==
    /\ submitted < MaxMsgs
    /\ submitted' = submitted + 1
    /\ outgoing' = outgoing \o FramesOf(submitted + 1)
    /\ UNCHANGED <<reachable, next_seq_num, net, to_ack, acks, parted, expected,
                   reorder, delivered>>
    /\ UNCHANGED <<offlineVars, resendVars, codecVars, addrVars, clientVars, closeVars>>

\* the seq_nums an ACK of the peer is still to bring back
Acking == to_ack \cup UNION {Covered(a) : a \in acks}

\* Writer: the socket is ready; it packs the frame at the head of the queue
\* into a FrameSet, gives it the next seq_num, records it in the ResendMap and
\* sends the datagram.  A seq_num does not come round while the ResendMap
\* holds it or an ACK that names it is on its way: of 2^24 seq_nums none
\* comes round that soon.
send_frame_set ==
    /\ outgoing /= << >>
    /\ net = {}
    /\ next_seq_num \notin DOMAIN map \cup Acking
    /\ record(next_seq_num, << <<next_seq_num, Head(outgoing)>> >>)
    /\ net' = {FrameSetOf(next_seq_num, <<Head(outgoing)>>)}
    /\ outgoing' = Tail(outgoing)
    /\ next_seq_num' = (next_seq_num + 1) % Window
    /\ UNCHANGED <<reachable, submitted, to_ack, acks, parted, expected, reorder,
                   delivered>>
    /\ UNCHANGED <<offlineVars, codecVars, addrVars, clientVars, closeVars>>

\* Resender: poll_wait is Ready with an entry in the map; it drains the stale
\* frames into the writer's queue ahead of the new messages
resend ==
    /\ map /= << >>
    /\ ~ShouldWait(map, now)
    /\ process_stales(<< >>)
    /\ outgoing' = [i \in DOMAIN buffer' |-> buffer'[i][2]] \o outgoing
    /\ UNCHANGED <<reachable, submitted, next_seq_num, net, to_ack, acks, parted,
                   expected, reorder, delivered>>
    /\ UNCHANGED <<offlineVars, codecVars, addrVars, clientVars, closeVars>>

\* a deadline one tick nearer
Nearer(t) == IF t > 0 THEN t - 1 ELSE 0

\* An instant of the clock passes.  The link came up MaxTime ticks after the
\* clock started and the clock is read from there on: every instant the
\* ResendMap holds is taken one tick nearer instead, the instants already
\* passed staying passed.  The writer, the resender and the way to the peer
\* are not a tick behind: the queue is written, the datagrams have left the
\* network and the stale entries are collected before the next tick.  The
\* peer's acker and the way back may take any time.
tick ==
    /\ outgoing = << >>
    /\ net = {}
    /\ map = << >> \/ ShouldWait(map, now)
    /\ map' = [k \in DOMAIN map |-> [map[k] EXCEPT !.expired_at = Nearer(@)]]
    /\ last_record_expired_at' = Nearer(last_record_expired_at)
    /\ UNCHANGED <<now, buffer, lastCall, outstanding>>
    /\ UNCHANGED <<offlineVars, codecVars, addrVars, clientVars, linkVars, closeVars>>

\* the network drops a FrameSet
lose(d) ==
    /\ d \in net
    /\ net' = net \ {d}
    /\ UNCHANGED <<reachable, submitted, outgoing, next_seq_num, to_ack, acks,
                   parted, expected, reorder, delivered>>
    /\ UNCHANGED <<offlineVars, resendVars, codecVars, addrVars, clientVars, closeVars>>

\* Reassembler: the bitmap is full, the fragments are concatenated in index order
Reassembled(arrived) == [i \in 1..Len(arrived) |-> i]

\* OrderedChannels: drain the reorder buffer while the expected index is present
RECURSIVE Drain(_)
Drain(r) ==
    IF r.expected \in DOMAIN r.reorder
    THEN Drain([r EXCEPT
                  !.delivered = Append(@, [id |-> r.expected,
                                           body |-> r.reorder[r.expected]]),
                  !.reorder = MapRemove(@, r.expected),
                  !.expected = @ + 1])
    ELSE r

\* OrderedChannels on a whole frame of ordered_frame_index m: a duplicate is
\* discarded, the expected one released and the buffer drained, a later one
\* buffered
Ordered(r, m, body) ==
    IF m < r.expected THEN r
    ELSE IF m = r.expected
         THEN Drain([r EXCEPT !.delivered = Append(@, [id |-> m, body |-> body]),
                              !.expected = @ + 1])
         ELSE [r EXCEPT !.reorder = MapInsert(@, m, body)]

\* Reassembler on one frame, then OrderedChannels on what it emits
Reassemble(r, frame) ==
    LET m == frame[1]
        part == frame[2]
    IN  IF part = 0 THEN Ordered(r, m, <<0>>)
        ELSE IF \E i \in DOMAIN r.parted[m] : r.parted[m][i] = part THEN r
        ELSE LET arrived == Append(r.parted[m], part)
             IN  IF Len(arrived) = Fragments(m)
                 THEN Ordered([r EXCEPT !.parted[m] = << >>], m, Reassembled(arrived))
                 ELSE [r EXCEPT !.parted[m] = arrived]

RECURSIVE ReceiveFrames(_, _)
ReceiveFrames(r, frames) ==
    IF frames = << >> THEN r
    ELSE ReceiveFrames(Reassemble(r, Head(frames)), Tail(frames))

\* Reader of the peer: a FrameSet arrives; OutgoingAck records its seq_num and
\* its frames go through the Reassembler and OrderedChannels to the user
deliver(d) ==
    /\ reachable
    /\ d \in net
    /\ net' = net \ {d}
    /\ to_ack' = to_ack \cup {d.seq_num}
    /\ LET r == ReceiveFrames([parted |-> parted, expected |-> expected,
                               reorder |-> reorder, delivered |-> delivered],
                              d.frames)
       IN  /\ parted' = r.parted
           /\ expected' = r.expected
           /\ reorder' = r.reorder
           /\ delivered' = r.delivered
    /\ UNCHANGED <<reachable, submitted, outgoing, next_seq_num, acks>>
    /\ UNCHANGED <<offlineVars, resendVars, codecVars, addrVars, clientVars, closeVars>>

\* OutgoingAck: contiguous seq_nums become a Range, isolated ones a Single,
\* in ascending order
RECURSIVE Coalesce(_)
Coalesce(S) ==
    IF S = {} THEN << >>
    ELSE LET a == MinOf(S)
             b == CHOOSE x \in S : /\ (a..x) \subseteq S
                                   /\ (x + 1) \notin S
         IN  <<IF a = b THEN Single(a) ELSE Range(a, b)>> \o Coalesce(S \ (a..b))

\* Acker of the peer: the flush interval is over; it emits the ACK and clears
\* the acked set
flush ==
    /\ to_ack /= {}
    /\ acks = {}
    /\ acks' = {Coalesce(to_ack)}
    /\ to_ack' = {}
    /\ UNCHANGED <<reachable, submitted, outgoing, next_seq_num, net, parted,
                   expected, reorder, delivered>>
    /\ UNCHANGED <<offlineVars, resendVars, codecVars, addrVars, clientVars, closeVars>>

\* the network drops an ACK
lose_ack(a) ==
    /\ a \in acks
    /\ acks' = acks \ {a}
    /\ UNCHANGED <<reachable, submitted, outgoing, next_seq_num, net, to_ack,
                   parted, expected, reorder, delivered>>
    /\ UNCHANGED <<offlineVars, resendVars, codecVars, addrVars, clientVars, closeVars>>

\* IncomingAck: an ACK arrives and its records go to the ResendMap
deliver_ack(a) ==
    /\ reachable
    /\ a \in acks
    /\ acks' = acks \ {a}
    /\ on_ack(a)
    /\ UNCHANGED <<reachable, submitted, outgoing, next_seq_num, net, to_ack,
                   parted, expected, reorder, delivered>>
    /\ UNCHANGED <<offlineVars, codecVars, addrVars, clientVars, closeVars>>

\* a FrameSet leaves the network, delivered or lost
FrameSetLeaves == \E d \in net : deliver(d) \/ lose(d)

\* an ACK leaves the network, delivered or lost
AckLeaves == \E a \in acks : deliver_ack(a) \/ lose_ack(a)

\* a FrameSet that carries the frame arrives
FrameArrives(frame) ==
    \E d \in net : (\E i \in DOMAIN d.frames : d.frames[i] = frame) /\ deliver(d)

\* an ACK that names seq_num arrives
AckArrives(seq_num) == \E a \in acks : seq_num \in Covered(a) /\ deliver_ack(a)

\* the link comes up towards a peer that is reachable or one that is not
InitLink ==
    /\ max_pending = 1
    /\ pending = << >>
    /\ connected = << >>
    /\ sending = NoSend
    /\ yielded = NoItem
    /\ lastOp = NoOp
    /\ map = << >>
    /\ last_record_expired_at = MaxTime
    /\ now = MaxTime
    /\ buffer = << >>
    /\ lastCall = [op |-> "new", hit |-> FALSE]
    /\ outstanding = {}
    /\ wire = 0
    /\ written = NoPackId
    /\ pack_id = NotRead
    /\ reader = NotRead
    /\ reachable \in BOOLEAN
    /\ submitted = 0
    /\ outgoing = << >>
    /\ next_seq_num = 0
    /\ net = {}
    /\ to_ack = {}
    /\ acks = {}
    /\ parted = NoParts
    /\ expected = 1
    /\ reorder = << >>
    /\ delivered = << >>
    /\ client = "Open"
    /\ server = "Open"
    /\ reply = "None"
    /\ ended = {}
    /\ addr_buf = << >>
    /\ addr_put = NoSocketAddr
    /\ addr_got = NoAddrRead
    /\ lookups = << >>
    /\ chosen = NoSocketAddr
    /\ stage = "to_socket_addrs"
    /\ completed = << >>
    /\ io = NotReturned
    /\ channels = [c \in Channels |-> << >>]
    /\ forwarded = [c \in Channels |-> << >>]
    /\ received = [c \in Channels |-> << >>]

NextLink ==
    \/ submit
    \/ send_frame_set
    \/ resend
    \/ tick
    \/ \E d \in net : lose(d)
    \/ \E d \in net : deliver(d)
    \/ flush
    \/ \E a \in acks : lose_ack(a)
    \/ \E a \in acks : deliver_ack(a)

\* The tasks of the pipeline are scheduled fairly, the clock runs, a datagram
\* does not stay in the network for ever, and towards a reachable peer the
\* network does not lose every FrameSet that carries a frame nor every ACK
\* that names a seq_num.
SpecLink ==
    /\ InitLink
    /\ [][NextLink]_vars
    /\ WF_vars(send_frame_set)
    /\ WF_vars(resend)
    /\ WF_vars(tick)
    /\ WF_vars(flush)
    /\ WF_vars(FrameSetLeaves)
    /\ WF_vars(AckLeaves)
    /\ \A frame \in AllFrames : SF_vars(FrameArrives(frame))
    /\ \A seq_num \in 0..(Window - 1) : SF_vars(AckArrives(seq_num))

(***************************************************************************)
(* The 4-way close (spec.md 4.8 Disconnect and close semantics, scenario   *)
(* 5) as tests.rs drives it over the loopback: no datagram is lost and     *)
(* every ACK is back within RTO.  The client is the sending side of the    *)
(* link above and address ClientAddr of the server's OfflineHandler; its   *)
(* DisconnectNotification is the last ReliableOrdered message of channel   *)
(* 0.  The way back carries the server's DisconnectNotification and the    *)
(* client's ACK of it.                                                     *)
(***************************************************************************)
ClientAddr == 1

\* the mtu of make_client_conf
ClientMtu == 1000

\* the server's OrderedChannels has released everything up to the client's
\* DisconnectNotification
GotDisconnect == client /= "Open" /\ Len(delivered) = submitted

\* what the server's inbound stream has yielded: the messages released ahead
\* of the DisconnectNotification
Yielded == IF client = "Open" THEN delivered
           ELSE SubSeq(delivered, 1, Min(Len(delivered), submitted - 1))

\* dst.send(Message::new(ReliableOrdered, 0, huge_msg)) of the client
send ==
    /\ client = "Open"
    /\ submitted < MaxMsgs - 1
    /\ submit

\* dst.close() of the client: the pending data is flushed ahead of the
\* DisconnectNotification, which takes the next ordered index
client_close ==
    /\ client = "Open"
    /\ submitted < MaxMsgs
    /\ client' = "Closing"
    /\ submitted' = submitted + 1
    /\ outgoing' = Append(outgoing, <<submitted + 1, 0>>)
    /\ UNCHANGED <<server, reply, ended>>
    /\ UNCHANGED <<reachable, next_seq_num, net, to_ack, acks, parted, expected,
                   reorder, delivered>>
    /\ UNCHANGED <<offlineVars, resendVars, codecVars, addrVars, clientVars>>

\* the server's io.next() yields None: the DisconnectNotification of the
\* client has come through the ordered channel
server_end_of_stream ==
    /\ GotDisconnect
    /\ "server" \notin ended
    /\ ended' = ended \cup {"server"}
    /\ UNCHANGED <<client, server, reply>>
    /\ UNCHANGED <<offlineVars, resendVars, codecVars, addrVars, clientVars, linkVars>>

\* io.close() of the server after its stream ended: it drains its ACKs and
\* sends its own DisconnectNotification
server_close ==
    /\ server = "Open"
    /\ "server" \in ended
    /\ to_ack = {}
    /\ server' = "Closing"
    /\ reply' = "Sent"
    /\ UNCHANGED <<client, ended>>
    /\ UNCHANGED <<offlineVars, resendVars, codecVars, addrVars, clientVars, linkVars>>

\* the client's reader gets the DisconnectNotification of the server: its
\* src.next() yields None
client_end_of_stream ==
    /\ reply = "Sent"
    /\ client /= "Closed"
    /\ reply' = "Received"
    /\ ended' = ended \cup {"client"}
    /\ UNCHANGED <<client, server>>
    /\ UNCHANGED <<offlineVars, resendVars, codecVars, addrVars, clientVars, linkVars>>

\* dst.flush() of the client on its ticker: the ACK of the server's
\* DisconnectNotification goes out
client_flush ==
    /\ reply = "Received"
    /\ client /= "Closed"
    /\ reply' = "Acked"
    /\ UNCHANGED <<client, server, ended>>
    /\ UNCHANGED <<offlineVars, resendVars, codecVars, addrVars, clientVars, linkVars>>

\* the close of the server completes, its ResendMap being clear: the Peer is
\* destroyed, OfflineHandler::disconnect(addr)
server_release ==
    /\ server = "Closing"
    /\ reply = "Acked"
    /\ server' = "Closed"
    /\ reply' = "Done"
    /\ disconnect(ClientAddr)
    /\ UNCHANGED <<client, ended>>
    /\ UNCHANGED <<max_pending, resendVars, codecVars, addrVars, clientVars, linkVars>>

\* the client's last timer (2 x MSL after its stream ended) is over with its
\* ResendMap clear: it releases its state
client_release ==
    /\ client = "Closing"
    /\ "client" \in ended
    /\ map = << >>
    /\ outgoing = << >>
    /\ reply \in {"Acked", "Done"}
    /\ client' = "Closed"
    /\ UNCHANGED <<server, reply, ended>>
    /\ UNCHANGED <<offlineVars, resendVars, codecVars, addrVars, clientVars, linkVars>>

\* the connection tests.rs sets up: the offline handshake is over, the server
\* holds the Peer of the client
InitClose ==
    /\ max_pending = 1
    /\ pending = << >>
    /\ connected = (ClientAddr :> Peer(ClientAddr, ClientMtu))
    /\ sending = NoSend
    /\ yielded = NoItem
    /\ lastOp = NoOp
    /\ map = << >>
    /\ last_record_expired_at = MaxTime
    /\ now = MaxTime
    /\ buffer = << >>
    /\ lastCall = [op |-> "new", hit |-> FALSE]
    /\ outstanding = {}
    /\ wire = 0
    /\ written = NoPackId
    /\ pack_id = NotRead
    /\ reader = NotRead
    /\ reachable = TRUE
    /\ submitted = 0
    /\ outgoing = << >>
    /\ next_seq_num = 0
    /\ net = {}
    /\ to_ack = {}
    /\ acks = {}
    /\ parted = NoParts
    /\ expected = 1
    /\ reorder = << >>
    /\ delivered = << >>
    /\ client = "Open"
    /\ server = "Open"
    /\ reply = "None"
    /\ ended = {}
    /\ addr_buf = << >>
    /\ addr_put = NoSocketAddr
    /\ addr_got = NoAddrRead
    /\ lookups = << >>
    /\ chosen = NoSocketAddr
    /\ stage = "to_socket_addrs"
    /\ completed = << >>
    /\ io = NotReturned
    /\ channels = [c \in Channels |-> << >>]
    /\ forwarded = [c \in Channels |-> << >>]
    /\ received = [c \in Channels |-> << >>]

NextClose ==
    \/ send
    \/ client_close
    \/ send_frame_set
    \/ \E d \in net : deliver(d)
    \/ flush
    \/ \E a \in acks : deliver_ack(a)
    \/ server_end_of_stream
    \/ server_close
    \/ client_end_of_stream
    \/ client_flush
    \/ server_release
    \/ client_release

\* every task of the two pipelines is scheduled fairly and the loopback
\* hands over every datagram
SpecClose ==
    /\ InitClose /\ [][NextClose]_vars
    /\ WF_vars(send_frame_set) /\ WF_vars(flush)
    /\ WF_vars(\E d \in net : deliver(d))
    /\ WF_vars(\E a \in acks : deliver_ack(a))
    /\ WF_vars(server_end_of_stream) /\ WF_vars(server_close)
    /\ WF_vars(client_end_of_stream) /\ WF_vars(client_flush)
    /\ WF_vars(server_release) /\ WF_vars(client_release)

(***************************************************************************)
(* The socket address codec of packet/mod.rs: SocketAddrWrite and          *)
(* SocketAddrRead over a buffer of bytes.                                  *)
(***************************************************************************)
\* Buf::get_u16: two bytes, big-endian
get_u16(b) == b[1] * 256 + b[2]

\* BufMut::put_u16: two bytes, big-endian
put_u16(x) == <<x \div 256, x % 256>>

\* Buf::get_u32 and Buf::get_u128: the bytes big-endian. A value wider than
\* 16 bits is held as its 16-bit parts, the most significant first
get_bits(b) == [i \in 1..(Len(b) \div 2) |-> get_u16(SubSeq(b, 2 * i - 1, 2 * i))]

\* BufMut::put_u32, and the octets of Ipv4Addr::from_bits and
\* Ipv6Addr::from_bits: the bytes of the value, the most significant first
put_bits(x) == [i \in 1..(2 * Len(x)) |-> put_u16(x[(i + 1) \div 2])[2 - (i % 2)]]

\* SocketAddr::V4(SocketAddrV4::new(ip, port)), the ip as its octets
V4(ip, port) == [v |-> 4, ip |-> ip, port |-> port]

\* SocketAddr::V6(SocketAddrV6::new(ip, port, flow_info, scope_id))
V6(ip, port, flowinfo, scope_id) ==
    [v |-> 6, ip |-> ip, port |-> port, flowinfo |-> flowinfo, scope_id |-> scope_id]

InvalidPacketLength == [ok |-> FALSE, err |-> "InvalidPacketLength", id |-> 0]

InvalidIPVer(ver) == [ok |-> FALSE, err |-> "InvalidIPVer", id |-> ver]

InvalidIPV6Family(family) == [ok |-> FALSE, err |-> "InvalidIPV6Family", id |-> family]

\* SocketAddrWrite::put_socket_addr: the bytes it appends
put_socket_addr_SwapFlowScope(addr) ==
    IF addr.v = 4
    THEN <<4>> \o addr.ip \o put_u16(addr.port)
    ELSE <<6>> \o put_u16(23) \o put_u16(addr.port) \o put_bits(addr.scope_id)
              \o addr.ip \o put_bits(addr.flowinfo)

put_socket_addr(addr) ==
    IF addr.v = 4
    THEN <<4>> \o addr.ip \o put_u16(addr.port)
    ELSE <<6>> \o put_u16(23) \o put_u16(addr.port) \o put_bits(addr.flowinfo)
              \o addr.ip \o put_bits(addr.scope_id)

\* SocketAddrRead::get_socket_addr: the result and the bytes it leaves in the
\* buffer; read_buf! returns InvalidPacketLength before anything is taken
get_socket_addr(buf) ==
    IF Len(buf) < 1 THEN [res |-> InvalidPacketLength, rest |-> buf]
    ELSE LET ver == buf[1]
             b == Tail(buf)
         IN  IF ver = 4 THEN
                 IF Len(b) < 6 THEN [res |-> InvalidPacketLength, rest |-> b]
                 ELSE LET ip == put_bits(get_bits(SubSeq(b, 1, 4)))
                          port == get_u16(SubSeq(b, 5, 6))
                      IN  [res |-> Ok(V4(ip, port)), rest |-> SubSeq(b, 7, Len(b))]
             ELSE IF ver = 6 THEN
                 IF Len(b) < 28 THEN [res |-> InvalidPacketLength, rest |-> b]
                 ELSE LET family == get_u16(SubSeq(b, 1, 2))
                          port == get_u16(SubSeq(b, 3, 4))
                          flow_info == get_bits(SubSeq(b, 5, 8))
                          ip == put_bits(get_bits(SubSeq(b, 9, 24)))
                          scope_ip == get_bits(SubSeq(b, 25, 28))
                      IN  IF family /= 23
                          THEN [res |-> InvalidIPV6Family(family),
                                rest |-> SubSeq(b, 3, Len(b))]
                          ELSE [res |-> Ok(V6(ip, port, flow_info, scope_ip)),
                                rest |-> SubSeq(b, 29, Len(b))]
             ELSE [res |-> InvalidIPVer(ver), rest |-> b]

\* the addresses written: the ends and the middle of every field
SocketAddrs ==
    {V4(ip, port) : ip \in {<<0, 0, 0, 0>>, <<127, 0, 0, 1>>, <<192, 168, 1, 2>>,
                            <<255, 255, 255, 255>>},
                    port \in {0, 1, 256, 19132, 65535}}
    \cup
    {V6(ip, port, flowinfo, scope_id) :
        ip \in {[i \in 1..16 |-> 0], [i \in 1..16 |-> IF i = 16 THEN 1 ELSE 0],
                [i \in 1..16 |-> 16 * i - 1]},
        port \in {0, 1, 256, 19132, 65535},
        flowinfo \in {<<0, 0>>, <<0, 1>>, <<1, 0>>, <<65535, 65535>>},
        scope_id \in {<<0, 0>>, <<0, 5>>}}

\* a packet body that is not the writer's: another version byte, another
\* IPv6 family, or an address cut short
ForeignBytes ==
    {<<ver>> \o Tail(put_socket_addr(addr)) :
        ver \in {0, 4, 5, 6, 7, 255}, addr \in SocketAddrs}
    \cup
    {<<6>> \o put_u16(family) \o SubSeq(put_socket_addr(addr), 4, 29) :
        family \in {0, 10, 23, 24, 5888, 65535}, addr \in {a \in SocketAddrs : a.v = 6}}
    \cup
    {SubSeq(put_socket_addr(addr), 1, Len(put_socket_addr(addr)) - cut) :
        cut \in {0, 1, 6, 7}, addr \in SocketAddrs}

\* a packet writer puts an address and then the rest of the packet into a
\* new buffer
put_addr(addr, trailer) ==
    /\ addr_buf = << >>
    /\ addr_buf' = put_socket_addr(addr) \o trailer
    /\ addr_put' = addr
    /\ addr_got' = NoAddrRead

\* a datagram of some peer arrives in a new buffer
recv_addr(bytes) ==
    /\ addr_buf = << >>
    /\ addr_buf' = bytes
    /\ addr_put' = NoSocketAddr
    /\ addr_got' = NoAddrRead

\* a packet reader takes the address
get_addr ==
    /\ addr_got = NoAddrRead
    /\ addr_got' = get_socket_addr(addr_buf)
    /\ UNCHANGED <<addr_buf, addr_put>>

NextAddr ==
    \/ \E addr \in SocketAddrs, trailer \in {<< >>, <<0>>, <<4, 6>>} :
          put_addr(addr, trailer)
          /\ UNCHANGED <<offlineVars, resendVars, codecVars, linkVars, closeVars, clientVars>>
    \/ \E bytes \in ForeignBytes :
          recv_addr(bytes)
          /\ UNCHANGED <<offlineVars, resendVars, codecVars, linkVars, closeVars, clientVars>>
    \/ get_addr
          /\ UNCHANGED <<offlineVars, resendVars, codecVars, linkVars, closeVars, clientVars>>

\* an empty buffer, nothing put and nothing read
InitAddr == Init /\ max_pending = 1

SpecAddr == InitAddr /\ [][NextAddr]_vars

(***************************************************************************)
(* The client's connect_to of client/conn/tokio.rs and the four channels   *)
(* it creates between the read path and the write path.                    *)
(***************************************************************************)
MaxForward == 3

Failed(kind) == [ok |-> FALSE, err |-> kind]

\* what addrs.to_socket_addrs() returns: no address, one or two, or an error
LookupInputs ==
    LET resolved == {V4(<<127, 0, 0, 1>>, 19132),
                     V6([i \in 1..16 |-> IF i = 16 THEN 1 ELSE 0], 19132, <<0, 0>>, <<0, 0>>)}
    IN  {Failed("io")} \cup {Ok(<< >>)} \cup {Ok(<<a>>) : a \in resolved}
            \cup {Ok(<<a, b>>) : a \in resolved, b \in resolved}

\* the errors a handshake ends with
HandshakeErrors == {"IncompatibleProtocol", "AlreadyConnected", "ConnectionRequestFailed"}

\* what the futures of handle_offline and of handle_online resolve to
HandshakeOutcomes == {Ok("handler")} \cup {Failed(kind) : kind \in HandshakeErrors}

\* let mut lookups = addrs.to_socket_addrs()?
to_socket_addrs(result) ==
    /\ stage = "to_socket_addrs"
    /\ IF result.ok
       THEN /\ lookups' = result.v
            /\ stage' = "connect"
            /\ UNCHANGED io
       ELSE /\ io' = result
            /\ stage' = "returned"
            /\ UNCHANGED lookups
    /\ UNCHANGED <<chosen, completed, channels, forwarded, received>>

\* one turn of the loop over lookups: socket.connect(addr).await
socket_connect(is_ok) ==
    /\ stage = "connect"
    /\ IF lookups = << >>
       THEN /\ io' = Failed("AddrNotAvailable")
            /\ stage' = "returned"
            /\ UNCHANGED <<lookups, chosen, completed>>
       ELSE /\ lookups' = Tail(lookups)
            /\ IF is_ok
               THEN /\ chosen' = Head(lookups)
                    /\ stage' = "handle_offline"
                    /\ completed' = Append(completed, "connect")
               ELSE UNCHANGED <<chosen, stage, completed>>
            /\ UNCHANGED io
    /\ UNCHANGED <<channels, forwarded, received>>

\* .handle_offline(addr, config.offline).await?
handle_offline_Proceed(result) ==
    /\ stage = "handle_offline"
    /\ completed' = Append(completed, "handle_offline")
    /\ stage' = "handle_online"
    /\ UNCHANGED <<lookups, chosen, io, channels, forwarded, received>>

handle_offline(result) ==
    /\ stage = "handle_offline"
    /\ IF result.ok
       THEN /\ completed' = Append(completed, "handle_offline")
            /\ stage' = "handle_online"
            /\ UNCHANGED io
       ELSE /\ io' = result
            /\ stage' = "returned"
            /\ UNCHANGED completed
    /\ UNCHANGED <<lookups, chosen, channels, forwarded, received>>

\* .handle_online(write, addr, config.offline.client_guid).await? and
\* Ok(IOImpl::new(io))
handle_online(result) ==
    /\ stage = "handle_online"
    /\ IF result.ok
       THEN /\ completed' = Append(completed, "handle_online")
            /\ io' = Ok(chosen)
       ELSE /\ io' = result
            /\ UNCHANGED completed
    /\ stage' = "returned"
    /\ UNCHANGED <<lookups, chosen, channels, forwarded, received>>

\* the records a channel carries: AckOrNack records for incoming_ack and
\* incoming_nack, seq_nums for outgoing_ack and outgoing_nack
ControlRecords(c) ==
    IF c \in {"incoming_ack", "incoming_nack"}
    THEN {Single(0), Range(0, 1)}
    ELSE {0, 1}

\* the number of records sent into the four channels so far
Forwarded ==
    Len(forwarded["incoming_ack"]) + Len(forwarded["incoming_nack"])
        + Len(forwarded["outgoing_ack"]) + Len(forwarded["outgoing_nack"])

\* flume::unbounded(): a send finds room whatever the channel holds
CanSend_Rendezvous(queue) == Len(queue) < 1

CanSend(queue) == TRUE

\* the read path sends a record into one of its channels
forward(c, rec) ==
    /\ io.ok
    /\ Forwarded < MaxForward
    /\ CanSend(channels[c])
    /\ channels' = [channels EXCEPT ![c] = Append(@, rec)]
    /\ forwarded' = [forwarded EXCEPT ![c] = Append(@, rec)]
    /\ UNCHANGED <<lookups, chosen, stage, completed, io, received>>

\* the write path takes the next record of one of its channels
receive(c) ==
    /\ io.ok
    /\ channels[c] /= << >>
    /\ received' = [received EXCEPT ![c] = Append(@, Head(channels[c]))]
    /\ channels' = [channels EXCEPT ![c] = Tail(@)]
    /\ UNCHANGED <<lookups, chosen, stage, completed, io, forwarded>>

\* the step of the whole program in which the write path takes a record
Receives(c) ==
    /\ receive(c)
    /\ UNCHANGED <<offlineVars, resendVars, codecVars, linkVars, closeVars, addrVars>>

NextClient ==
    \/ \E result \in LookupInputs :
          to_socket_addrs(result)
          /\ UNCHANGED <<offlineVars, resendVars, codecVars, linkVars, closeVars, addrVars>>
    \/ \E is_ok \in BOOLEAN :
          socket_connect(is_ok)
          /\ UNCHANGED <<offlineVars, resendVars, codecVars, linkVars, closeVars, addrVars>>
    \/ \E result \in HandshakeOutcomes :
          handle_offline(result)
          /\ UNCHANGED <<offlineVars, resendVars, codecVars, linkVars, closeVars, addrVars>>
    \/ \E result \in HandshakeOutcomes :
          handle_online(result)
          /\ UNCHANGED <<offlineVars, resendVars, codecVars, linkVars, closeVars, addrVars>>
    \/ \E c \in Channels : \E rec \in ControlRecords(c) :
          forward(c, rec)
          /\ UNCHANGED <<offlineVars, resendVars, codecVars, linkVars, closeVars, addrVars>>
    \/ \E c \in Channels : Receives(c)

\* connect_to has just been called
InitClient == Init /\ max_pending = 1

\* the write path is polled again and again: it takes what its channels hold
SpecClient ==
    /\ InitClient /\ [][NextClient]_vars
    /\ \A c \in Channels : WF_vars(Receives(c))






(***************************************************************************)
(* Notions the properties are stated with.                                 *)
(***************************************************************************)
Clamp(x, lo, hi) == IF x < lo THEN lo ELSE IF x > hi THEN hi ELSE x

InSupport(v) == \E i \in DOMAIN support_version : support_version[i] = v

MaxVersion ==
    CHOOSE v \in {support_version[i] : i \in DOMAIN support_version} :
        \A i \in DOMAIN support_version : support_version[i] <= v

IncompatibleProtocol ==
    [kind |-> "IncompatibleProtocol", server_protocol |-> MaxVersion,
     server_guid |-> sever_guid]

\* The step is the handling of one packet of the named kind from addr.  Every
\* such step records the packet's addr (and protocol_version or mtu) in
\* lastOp', so the properties below take them from there instead of trying
\* every input on every step.
OnRequest1(addr, protocol_version, mtu) ==
    /\ lastOp'.op = "OpenConnectionRequest1"
    /\ lastOp'.addr = addr
    /\ lastOp'.ver = protocol_version
    /\ lastOp'.mtu \in {0, mtu}
    /\ RecvOpenConnectionRequest1(addr, protocol_version, mtu)

OnRequest2(addr, mtu) ==
    /\ lastOp'.op = "OpenConnectionRequest2"
    /\ lastOp'.addr = addr
    /\ lastOp'.mtu = mtu
    /\ RecvOpenConnectionRequest2(addr, mtu)

OnConnected(addr, pack) ==
    /\ lastOp'.op = "Connected"
    /\ lastOp'.addr = addr
    /\ RecvConnected(addr, pack)

OnPing(addr, send_timestamp) ==
    /\ lastOp'.op = "UnconnectedPing"
    /\ lastOp'.addr = addr
    /\ RecvUnconnectedPing(addr, send_timestamp)

\* the handler is sending a packet of this kind to addr
Replying(kind, addr) ==
    sending.kind = "Send" /\ sending.addr = addr /\ sending.packet.kind = kind

\* the seq_nums of a record, in the order its loop visits them
RECURSIVE Visited(_, _)
Visited(start, end) ==
    IF start > end THEN << >> ELSE <<start>> \o Visited(start + 1, end)

\* the seq_nums the records list, in the order they list them
RECURSIVE Listed(_)
Listed(records) ==
    IF records = << >> THEN << >>
    ELSE Visited(records[1].start, records[1].end) \o Listed(Tail(records))

\* the entries of m among the first n seq_nums of `listed`, each at its first
\* place, as the frames they hold
RECURSIVE FramesListed(_, _, _)
FramesListed(m, listed, n) ==
    IF n = 0 THEN << >>
    ELSE LET s == listed[n]
             first == \A i \in 1..(n - 1) : listed[i] /= s
         IN  FramesListed(m, listed, n - 1)
                 \o (IF first /\ s \in DOMAIN m THEN m[s].frames ELSE << >>)

(***************************************************************************)
(* OfflineHandler: the handshake.                                          *)
(***************************************************************************)

\* C1 (as amended): when an OpenConnectionRequest2 ends a handshake in
\* Connected, the Peer stored for the address has the mtu of that Request2,
\* which lies in [min_mtu, max_mtu]; it is clamp(client_mtu, min_mtu, max_mtu)
\* when the Request2 echoes the mtu offered for the Request1 handled just before.
C1_PeerMtuIsRequest2Mtu ==
    [][LET addr == lastOp'.addr  mtu == lastOp'.mtu IN
          (/\ OnRequest2(addr, mtu)
           /\ addr \notin DOMAIN connected
           /\ addr \in DOMAIN connected')
          => /\ connected'[addr] = Peer(addr, mtu)
             /\ min_mtu <= connected'[addr].mtu
             /\ connected'[addr].mtu <= max_mtu
             /\ (/\ lastOp.op = "OpenConnectionRequest1"
                 /\ lastOp.addr = addr
                 /\ lastOp.mtu /= 0
                 /\ mtu = Clamp(lastOp.mtu, min_mtu, max_mtu))
                => connected'[addr].mtu = Clamp(lastOp.mtu, min_mtu, max_mtu)]_vars

\* C1 as stated: the Peer's mtu is clamp(client_mtu, min_mtu, max_mtu), client_mtu
\* being the mtu of the accepted OpenConnectionRequest1 (here the one handled
\* just before the OpenConnectionRequest2).
C1_Original ==
    [][LET addr == lastOp'.addr  mtu == lastOp'.mtu IN
          (/\ OnRequest2(addr, mtu)
           /\ lastOp.op = "OpenConnectionRequest1"
           /\ lastOp.addr = addr
           /\ lastOp.mtu /= 0
           /\ addr \notin DOMAIN connected
           /\ addr \in DOMAIN connected')
          => connected'[addr].mtu = Clamp(lastOp.mtu, min_mtu, max_mtu)]_vars

C1_Witness ==
    /\ lastOp.op = "OpenConnectionRequest2"
    /\ Replying("OpenConnectionReply2", lastOp.addr)
    /\ lastOp.addr \in DOMAIN connected
    /\ connected[lastOp.addr] = Peer(lastOp.addr, lastOp.mtu)

\* C2: an OpenConnectionRequest1 whose protocol_version is not in
\* support_version is answered with IncompatibleProtocol carrying
\* max(support_version) and the server guid, and with nothing else; pending and
\* connected stay as they were.
C2_UnsupportedVersion ==
    [][LET addr == lastOp'.addr  ver == lastOp'.ver IN \A mtu \in MtuInputs :
          (OnRequest1(addr, ver, mtu) /\ ~InSupport(ver))
          => /\ sending' = Send(IncompatibleProtocol, addr)
             /\ yielded' = NoItem
             /\ pending' = pending
             /\ connected' = connected]_vars

C2_Witness ==
    /\ lastOp.op = "OpenConnectionRequest1"
    /\ lastOp.mtu = 0
    /\ Replying("IncompatibleProtocol", lastOp.addr)
    /\ sending.packet.server_protocol = 12
    /\ LruContains(pending, lastOp.addr)

\* C3: an OpenConnectionRequest1 with a supported version makes the address the
\* most recent pending entry, with that version, and is answered with
\* OpenConnectionReply1 { mtu = clamp(mtu, min_mtu, max_mtu), use_encryption = false }.
C3_Request1Accepted ==
    [][LET addr == lastOp'.addr  ver == lastOp'.ver IN \A mtu \in MtuInputs :
          (OnRequest1(addr, ver, mtu) /\ InSupport(ver))
          => /\ pending' /= << >>
             /\ pending'[1] = [addr |-> addr, ver |-> ver]
             /\ \A i \in DOMAIN pending' : i /= 1 => pending'[i].addr /= addr
             /\ sending' = Send([kind |-> "OpenConnectionReply1",
                                 server_guid |-> sever_guid,
                                 use_encryption |-> FALSE,
                                 mtu |-> Clamp(mtu, min_mtu, max_mtu)], addr)
             /\ min_mtu <= sending'.packet.mtu
             /\ sending'.packet.mtu <= max_mtu
             /\ connected' = connected]_vars

C3_Witness ==
    /\ lastOp.op = "OpenConnectionRequest1"
    /\ lastOp.mtu /= 0
    /\ lastOp.mtu < min_mtu
    /\ Replying("OpenConnectionReply1", lastOp.addr)
    /\ sending.packet.mtu = min_mtu
    /\ pending /= << >>
    /\ pending[1].addr = lastOp.addr

\* The steps of C4: the accepted OpenConnectionRequest2 stores Peer { addr, mtu }
\* and is answered with OpenConnectionReply2 { client_address = addr, mtu,
\* encryption_enabled = false }; a Connected-family packet from a connected
\* address is yielded with the stored Peer.
C4_Handshake ==
    /\ LET addr == lastOp'.addr  mtu == lastOp'.mtu IN
          (/\ OnRequest2(addr, mtu)
           /\ LruContains(pending, addr)
           /\ min_mtu <= mtu
           /\ mtu <= max_mtu
           /\ addr \notin DOMAIN connected)
          => /\ DOMAIN connected' = DOMAIN connected \cup {addr}
             /\ connected'[addr] = Peer(addr, mtu)
             /\ sending' = Send([kind |-> "OpenConnectionReply2",
                                 server_guid |-> sever_guid,
                                 client_address |-> addr,
                                 mtu |-> mtu,
                                 encryption_enabled |-> FALSE], addr)
    /\ LET addr == lastOp'.addr IN \A pack \in ConnectedKinds :
          (OnConnected(addr, pack) /\ addr \in DOMAIN connected)
          => yielded' = [kind |-> "Item", pack |-> pack, peer |-> connected[addr]]

\* the Peer stored for addr stays stored
PeerStays(addr) == addr \in DOMAIN connected' /\ connected'[addr] = connected[addr]

\* C4 (as amended): the steps of C4, and a stored Peer stays stored, so that
\* the later Connected-family packets of its address are yielded with it, until
\* disconnect(addr) is called.
C4_Request2Accepted ==
    [][/\ C4_Handshake
       /\ \A addr \in DOMAIN connected : PeerStays(addr) \/ disconnect(addr)]_vars

\* C4 as stated: the steps of C4, and a stored Peer stays stored for good, so
\* that every later Connected-family packet of its address is yielded with it.
C4_Original ==
    [][/\ C4_Handshake
       /\ \A addr \in DOMAIN connected : PeerStays(addr)]_vars

C4_Witness ==
    /\ lastOp.op = "Connected"
    /\ yielded.kind = "Item"
    /\ lastOp.addr \in DOMAIN connected
    /\ yielded.peer = connected[lastOp.addr]
    /\ yielded.peer.mtu = max_mtu

\* C5: an OpenConnectionRequest2 from an address that is not pending is
\* answered with IncompatibleProtocol and changes neither pending nor
\* connected.
C5_Request2WithoutRequest1 ==
    [][LET addr == lastOp'.addr  mtu == lastOp'.mtu IN
          (OnRequest2(addr, mtu) /\ ~LruContains(pending, addr))
          => /\ sending' = Send(IncompatibleProtocol, addr)
             /\ yielded' = NoItem
             /\ pending' = pending
             /\ connected' = connected]_vars

C5_Witness ==
    /\ lastOp.op = "OpenConnectionRequest2"
    /\ min_mtu <= lastOp.mtu
    /\ lastOp.mtu <= max_mtu
    /\ Replying("IncompatibleProtocol", lastOp.addr)
    /\ lastOp.addr \notin DOMAIN connected

\* C6: an OpenConnectionRequest2 from a pending address whose mtu is outside
\* [min_mtu, max_mtu], or whose address is already connected, is answered with
\* AlreadyConnected and leaves the connected map as it was.
C6_Request2Refused ==
    [][LET addr == lastOp'.addr  mtu == lastOp'.mtu IN
          (/\ OnRequest2(addr, mtu)
           /\ LruContains(pending, addr)
           /\ (mtu < min_mtu \/ mtu > max_mtu \/ addr \in DOMAIN connected))
          => /\ sending' = Send([kind |-> "AlreadyConnected",
                                 server_guid |-> sever_guid], addr)
             /\ yielded' = NoItem
             /\ connected' = connected]_vars

C6_Witness ==
    /\ lastOp.op = "OpenConnectionRequest2"
    /\ Replying("AlreadyConnected", lastOp.addr)
    /\ lastOp.addr \in DOMAIN connected
    /\ min_mtu <= lastOp.mtu
    /\ lastOp.mtu <= max_mtu
    /\ connected[lastOp.addr].mtu /= lastOp.mtu

\* C7: a Connected-family packet is yielded exactly when its source address
\* is in the connected map, and then with the Peer stored for it; from any
\* other address it is dropped and answered with ConnectionRequestFailed.
\* Nothing else yields an item.
C7_ConnectedOnlyFromPeers ==
    [][/\ LET addr == lastOp'.addr IN \A pack \in ConnectedKinds :
             OnConnected(addr, pack)
             => /\ IF addr \in DOMAIN connected
                   THEN /\ yielded' = [kind |-> "Item", pack |-> pack,
                                       peer |-> connected[addr]]
                        /\ sending' = NoSend
                   ELSE /\ yielded' = NoItem
                        /\ sending' = Send([kind |-> "ConnectionRequestFailed",
                                            server_guid |-> sever_guid], addr)
                /\ pending' = pending
                /\ connected' = connected
       /\ (yielded'.kind = "Item" /\ yielded' /= yielded)
             => /\ yielded'.peer.addr \in DOMAIN connected
                /\ connected[yielded'.peer.addr] = yielded'.peer]_vars

C7_Witness ==
    /\ lastOp.op = "Connected"
    /\ lastOp.addr \notin DOMAIN connected
    /\ LruContains(pending, lastOp.addr)
    /\ Replying("ConnectionRequestFailed", lastOp.addr)
    /\ yielded = NoItem

C9_PingPong ==
    [][LET addr == lastOp'.addr IN \A ts \in TimestampInputs :
          OnPing(addr, ts)
          => /\ sending' = Send([kind |-> "UnconnectedPong",
                                 send_timestamp |-> ts,
                                 server_guid |-> sever_guid,
                                 data |-> advertisement], addr)
             /\ pending' = pending
             /\ connected' = connected]_vars

C9_Witness ==
    /\ lastOp.op = "UnconnectedPing"
    /\ Replying("UnconnectedPong", lastOp.addr)
    /\ sending.packet.send_timestamp = 7
    /\ lastOp.addr \in DOMAIN connected
    /\ pending /= << >>

(***************************************************************************)
(* ResendMap.                                                              *)
(***************************************************************************)

\* C10: on_ack removes exactly the entries whose seq_num a record of the ACK
\* covers, keeps the other entries as they are, and hands no frame to a
\* retransmit buffer.
C10_OnAckRemovesCovered ==
    [][lastCall'.op = "on_ack"
       => \A ack \in AckOrNackInputs :
             on_ack(ack)
             => /\ DOMAIN map' = DOMAIN map \ Covered(ack)
                /\ \A k \in DOMAIN map' : map'[k] = map[k]
                /\ buffer' = << >>]_vars

C10_Witness ==
    /\ lastCall.op = "on_ack"
    /\ lastCall.hit
    /\ DOMAIN map /= {}

\* C11: on_nack_into appends to the buffer, behind the frames it already
\* holds, the frames of every covered seq_num that has an entry, frame sets in
\* the order the records list their seq_nums and the frames of a set in the
\* order they were recorded, and deletes exactly those entries.
C11_OnNackMovesCovered ==
    [][lastCall'.op = "on_nack_into"
       => \A nack \in AckOrNackInputs, buffer_in \in BufferInputs :
             on_nack_into(nack, buffer_in)
             => /\ buffer' = buffer_in
                                 \o FramesListed(map, Listed(nack), Len(Listed(nack)))
                /\ DOMAIN map' = DOMAIN map \ Covered(nack)
                /\ \A k \in DOMAIN map' : map'[k] = map[k]]_vars

C11_Witness ==
    /\ lastCall.op = "on_nack_into"
    /\ lastCall.hit
    /\ map = << >>
    /\ buffer = <<QueuedFrame, <<1, 1>>, <<1, 2>>, <<0, 1>>>>

\* C12: process_stales moves into the buffer, behind the frames it holds, the
\* frames of exactly the entries with expired_at <= now (each frame set whole,
\* the sets in some order) and deletes them, and keeps the entries with
\* expired_at > now as they are; record sets expired_at to now + RTO, so that no
\* entry is moved before RTO has passed since it was recorded.
C12_StalesAreExactlyExpired ==
    [][/\ lastCall'.op = "process_stales"
          => \A buffer_in \in BufferInputs :
                process_stales(buffer_in)
                => LET expired == {k \in DOMAIN map : map[k].expired_at <= now}
                   IN  /\ DOMAIN map' = DOMAIN map \ expired
                       /\ \A k \in DOMAIN map' : map'[k] = map[k]
                       /\ \E order \in Orders(expired) :
                             buffer' = buffer_in \o FramesInOrder(map, order)
       /\ lastCall'.op = "record"
          => \A seq_num \in Seqs : \A frames \in FramesInputs(seq_num) :
                record(seq_num, frames)
                => /\ map'[seq_num] = ResendEntry(frames, now + RTO)
                   /\ \A k \in DOMAIN map \ {seq_num} :
                         k \in DOMAIN map' /\ map'[k] = map[k]]_vars

C12_Witness ==
    /\ lastCall.op = "process_stales"
    /\ lastCall.hit
    /\ Len(buffer) > 1
    /\ buffer[2][1] \notin DOMAIN map
    /\ map /= << >>
    /\ \A k \in DOMAIN map : map[k].expired_at > now

\* C13 (as amended): the map holds one entry for exactly the seq_nums that were
\* recorded and have not since been acked, nacked or collected by
\* process_stales; an entry whose deadline has passed stays until then.
C13_EntriesAreOutstanding ==
    /\ DOMAIN map = outstanding
    /\ \A k \in DOMAIN map :
          /\ map[k].frames \in FramesInputs(k)
          /\ map[k].expired_at <= now + RTO

\* C13 as stated, its "only if" half: an entry that exists is outstanding and
\* has not yet expired.
C13_Original ==
    /\ DOMAIN map \subseteq outstanding
    /\ \A k \in DOMAIN map : map[k].expired_at > now

C13_Witness ==
    /\ lastCall.op = "record"
    /\ outstanding /= {}
    /\ \E k \in DOMAIN map : map[k].expired_at <= now
    /\ \E k \in DOMAIN map : map[k].expired_at > now

\* C14 (as amended): poll_wait reports Pending, after registering the waker
\* for the minimum expired_at over all entries, when the map holds an entry
\* and that minimum is later than now; it reports Ready and registers nothing
\* when the map is empty or an entry has already reached its deadline.
C14_PollWait ==
    [][(lastCall'.op = "poll_wait" /\ poll_wait)
       => IF map /= << >> /\ \A k \in DOMAIN map : map[k].expired_at > now
          THEN /\ ~lastCall'.ready
               /\ \E k \in DOMAIN map :
                     /\ lastCall'.timers = {map[k].expired_at}
                     /\ \A j \in DOMAIN map : map[k].expired_at <= map[j].expired_at
          ELSE /\ lastCall'.ready
               /\ lastCall'.timers = {}]_vars

\* C14 as stated: after poll_wait on a map that holds an entry the result is
\* Pending with the waker registered for the minimum expired_at, and on an
\* empty map it is Ready with nothing registered.
C14_Original ==
    lastCall.op = "poll_wait"
    => IF map /= << >>
       THEN /\ ~lastCall.ready
            /\ \E k \in DOMAIN map :
                  /\ lastCall.timers = {map[k].expired_at}
                  /\ \A j \in DOMAIN map : map[k].expired_at <= map[j].expired_at
       ELSE /\ lastCall.ready
            /\ lastCall.timers = {}

C14_Witness ==
    /\ lastCall.op = "poll_wait"
    /\ ~lastCall.ready
    /\ \E k, j \in DOMAIN map :
          /\ map[k].expired_at < map[j].expired_at
          /\ lastCall.timers = {map[k].expired_at}
          /\ map[k].expired_at > now

\* C15: poll_wait registers a timer only for a deadline later than now; when
\* an entry has expired_at <= now it reports Ready and registers none.
C15_TimerOnlyInFuture ==
    [][(lastCall'.op = "poll_wait" /\ poll_wait)
       => /\ \A t \in lastCall'.timers : t > now
          /\ (\E k \in DOMAIN map : map[k].expired_at <= now)
                => (lastCall'.ready /\ lastCall'.timers = {})]_vars

C15_Witness ==
    /\ lastCall.op = "poll_wait"
    /\ lastCall.ready
    /\ lastCall.timers = {}
    /\ \E k \in DOMAIN map : map[k].expired_at = now
    /\ \E k \in DOMAIN map : map[k].expired_at > now

(***************************************************************************)
(* The packet ids.                                                         *)
(***************************************************************************)
RECURSIVE BitAnd(_, _)
BitAnd(a, b) ==
    IF a = 0 \/ b = 0 THEN 0
    ELSE (a % 2) * (b % 2) + 2 * BitAnd(a \div 2, b \div 2)

\* every bit of mask is set in byte
HasBits(byte, mask) == BitAnd(byte, mask) = mask

\* the classification by the flag bits alone
ByFlags(byte) ==
    IF HasBits(byte, 192) THEN "Ack"
    ELSE IF HasBits(byte, 160) THEN "Nack"
    ELSE "FrameSet"

ConnectedReader(id) ==
    IF id = "Ack" THEN Ok("connected::read_ack")
    ELSE IF id = "Nack" THEN Ok("connected::read_nack")
    ELSE Ok("connected::read_frame_set")

\* the latest step of the codec was a read of the byte in wire
WasRead == pack_id /= NotRead

\* C19: every first byte with bit 0x80 set, other than 0xFE, is read as a
\* connected packet: as Ack when its 0xC0 bits are set, else as Nack when its
\* 0xA0 bits are set, else as FrameSet; 0xFE is the id Game, which Packet::read
\* refuses with InvalidPacketId(0xFE); and no byte with bit 0x80 clear is
\* read as Ack, Nack or FrameSet.
C19_FlagClassification ==
    WasRead =>
        /\ (HasBits(wire, 128) /\ wire /= 254)
              => /\ pack_id = Ok(ByFlags(wire))
                 /\ reader = ConnectedReader(ByFlags(wire))
        /\ wire = 254
              => /\ pack_id = Ok("Game")
                 /\ reader = InvalidPacketId(254)
        /\ ~HasBits(wire, 128)
              => /\ pack_id \notin {Ok("Ack"), Ok("Nack"), Ok("FrameSet")}
                 /\ reader \notin {Ok("connected::read_ack"), Ok("connected::read_nack"),
                                   Ok("connected::read_frame_set")}

\* C19 as stated: every first byte with bit 0x80 set is read as a connected
\* packet, Ack, Nack or FrameSet by its flag bits, and no byte with bit 0x80
\* clear is.
C19_Original ==
    WasRead =>
        /\ HasBits(wire, 128)
              => /\ pack_id = Ok(ByFlags(wire))
                 /\ reader = ConnectedReader(ByFlags(wire))
        /\ ~HasBits(wire, 128)
              => pack_id \notin {Ok("Ack"), Ok("Nack"), Ok("FrameSet")}

C19_Witness ==
    /\ wire = 191
    /\ written = NoPackId
    /\ pack_id = Ok("Nack")
    /\ reader = Ok("connected::read_nack")

\* the ids the fixed table of the packet-id section names
FixedTable ==
    {"UnconnectedPing1", "UnconnectedPing2", "UnconnectedPong",
     "OpenConnectionRequest1", "OpenConnectionRequest2",
     "OpenConnectionReply1", "OpenConnectionReply2",
     "IncompatibleProtocolVersion", "AlreadyConnected",
     "ConnectionRequestFailed", "NewIncomingConnection",
     "DisconnectNotification", "ConnectedPing", "ConnectedPong", "Game"}

\* C20 as stated: an id of the fixed table that was written is read back as
\* itself, from_u8(u8::from(id)) = Ok(id), and a byte below 0x80 that is the
\* byte of no id of the table is refused with InvalidPacketId of that byte.
C20_Original ==
    WasRead =>
        /\ written \in FixedTable => pack_id = Ok(written)
        /\ (wire < 128 /\ wire \notin {u8_from(id) : id \in FixedTable})
              => pack_id = InvalidPacketId(wire)

(***************************************************************************)
(* The connected link.                                                     *)
(***************************************************************************)
\* C16 as stated: whatever the network loses, towards a reachable peer the
\* ResendMap is in the end empty for good once the user has stopped
\* submitting, and towards an unreachable peer a ResendMap that holds a frame
\* set does not become empty for good.  An ACK that comes after RTO finds its
\* frame set removed by process_stales and recorded again under a new
\* seq_num, which it does not name: with every ACK that late the map holds a
\* frame set again and again although the peer has got every frame.
C16_Original ==
    /\ reachable => <>[](map = << >>)
    /\ ~reachable => [](map /= << >> => ~<>[](map = << >>))

\* the bytes of message m as the user submitted them
Content(m) == IF Fragments(m) = 1 THEN <<0>> ELSE [i \in 1..Fragments(m) |-> i]

\* what the inbound stream has yielded is the first messages submitted, each
\* once, in the order of submission and with the bytes submitted
InOrderOnce ==
    /\ Len(delivered) <= submitted
    /\ \A i \in DOMAIN delivered : delivered[i] = [id |-> i, body |-> Content(i)]

\* C17: the peer's inbound stream yields the messages submitted, each once,
\* with the bytes submitted and in the order of submission, fragmented or not;
\* and towards a reachable peer every message submitted is in the end
\* yielded, whatever the network lost on the way.
C17_EndToEndDelivery ==
    /\ []InOrderOnce
    /\ reachable => \A m \in Msgs : [](submitted >= m => <>(Len(delivered) >= m))

C17_Witness ==
    /\ reachable
    /\ parted[1] /= << >>
    /\ Len(delivered) = MaxMsgs
    /\ InOrderOnce

(***************************************************************************)
(* The 4-way close.                                                        *)
(***************************************************************************)
\* the steps of the close have come in their order: the server's stream ends
\* after the client's DisconnectNotification and after every message sent
\* before it was yielded, with the bytes submitted; the server sends its
\* DisconnectNotification after its stream ended; the client's stream ends
\* after that; a side that is closed has released its state
CloseInOrder ==
    /\ "server" \in ended =>
          /\ GotDisconnect
          /\ Len(Yielded) = submitted - 1
          /\ \A i \in DOMAIN Yielded : Yielded[i] = [id |-> i, body |-> Content(i)]
    /\ server /= "Open" => "server" \in ended
    /\ reply /= "None" => server /= "Open"
    /\ "client" \in ended => reply \in {"Received", "Acked", "Done"}
    /\ server = "Closed" =>
          /\ ~IsConnected(ClientAddr)
          /\ ClientAddr \notin LruKeys(pending)
    /\ client = "Closed" => "client" \in ended /\ map = << >> /\ outgoing = << >>

\* both streams have ended and both sides have released their state
BothClosed ==
    /\ ended = {"client", "server"}
    /\ client = "Closed"
    /\ server = "Closed"

Answered ==
    {"Connected", "UnconnectedPing", "OpenConnectionRequest1", "OpenConnectionRequest2"}

\* C23: a send that has not completed is the reply to the packet handled
\* last, to the address it came from; until it completes the handler takes
\* nothing from the inbound stream, neither a packet nor its end; handling a
\* packet starts at most one send, to the address of that packet; and the
\* end of the stream is reported with no send left to complete.
C23_OneSendBeforeNextPoll ==
    /\ [](sending /= NoSend =>
            /\ lastOp.op \in Answered
            /\ sending.addr = lastOp.addr
            /\ yielded = NoItem)
    /\ [][/\ sending /= NoSend =>
                /\ sending' \in {sending, NoSend}
                /\ UNCHANGED <<yielded, lastOp>>
          /\ sending' \notin {sending, NoSend} =>
                /\ sending = NoSend
                /\ lastOp'.op \in Answered
                /\ sending'.addr = lastOp'.addr
          /\ (yielded' = EndOfStream /\ yielded /= EndOfStream) =>
                sending = NoSend /\ sending' = NoSend]_vars

C23_Witness ==
    /\ lastOp.op = "OpenConnectionRequest2"
    /\ Replying("OpenConnectionReply2", lastOp.addr)
    /\ yielded = NoItem
    /\ LruKeys(pending) /= {}

(***************************************************************************)
(* OfflineHandler: disconnect.                                             *)
(***************************************************************************)
\* the entries of the pending set that are not of addr, in their order
OthersPending(c, addr) == SelectSeq(c, LAMBDA e : e.addr /= addr)

\* C26: disconnect(addr) leaves addr neither pending nor connected and leaves
\* the pending entries and the Peers of the other addresses, the send in
\* progress and what was yielded as they were; a Connected packet from an
\* address that is not connected is not yielded and is answered with
\* ConnectionRequestFailed; and an address becomes connected only by its own
\* OpenConnectionRequest2 while it is pending, and pending only by its own
\* OpenConnectionRequest1.
C26_Disconnect ==
    [][\A addr \in Addrs :
          /\ disconnect(addr) =>
                /\ addr \notin LruKeys(pending')
                /\ addr \notin DOMAIN connected'
                /\ OthersPending(pending', addr) = OthersPending(pending, addr)
                /\ DOMAIN connected' = DOMAIN connected \ {addr}
                /\ \A o \in DOMAIN connected' : connected'[o] = connected[o]
                /\ UNCHANGED <<sending, yielded>>
          /\ (lastOp'.op = "Connected" /\ lastOp'.addr = addr
                /\ (\E pack \in ConnectedKinds : RecvConnected(addr, pack))
                /\ addr \notin DOMAIN connected) =>
                /\ yielded' = NoItem
                /\ sending' = Send([kind |-> "ConnectionRequestFailed",
                                    server_guid |-> sever_guid], addr)
          /\ (addr \notin DOMAIN connected /\ addr \in DOMAIN connected') =>
                /\ lastOp'.op = "OpenConnectionRequest2"
                /\ lastOp'.addr = addr
                /\ addr \in LruKeys(pending)
          /\ (addr \notin LruKeys(pending) /\ addr \in LruKeys(pending')) =>
                /\ lastOp'.op = "OpenConnectionRequest1"
                /\ lastOp'.addr = addr]_vars

\* the reply to an accepted OpenConnectionRequest2 is still being sent, the
\* address has been disconnected since, and another address is connected
C26_Witness ==
    /\ lastOp.op = "OpenConnectionRequest2"
    /\ Replying("OpenConnectionReply2", lastOp.addr)
    /\ lastOp.addr \notin DOMAIN connected
    /\ lastOp.addr \notin LruKeys(pending)
    /\ DOMAIN connected /= {}

(***************************************************************************)
(* OfflineHandler: the packets a server does not expect.                   *)
(***************************************************************************)
\* C27: an unconnected packet other than UnconnectedPing,
\* OpenConnectionRequest1 and OpenConnectionRequest2 starts no send, yields
\* nothing and leaves pending and connected as they were; and after it the
\* handler takes the next inbound packet, no send being in its way.
C27_OtherDiscarded ==
    /\ [][LET addr == lastOp'.addr IN \A pack \in OtherKinds :
             (lastOp'.op = "Other" /\ RecvOther(addr, pack)) =>
                /\ sending = NoSend
                /\ sending' = NoSend
                /\ yielded' = NoItem
                /\ pending' = pending
                /\ connected' = connected]_vars
    /\ [](lastOp.op = "Other" =>
            /\ sending = NoSend
            /\ ENABLED RecvUnconnectedPing(lastOp.addr, 0))

C27_Witness ==
    /\ lastOp.op = "Other"
    /\ sending = NoSend
    /\ yielded = NoItem
    /\ lastOp.addr \in LruKeys(pending)
    /\ DOMAIN connected /= {}

(***************************************************************************)
(* OfflineHandler: the connected map.                                      *)
(***************************************************************************)
\* C29: every entry of the connected map is the Peer of its own key, with an
\* mtu in [min_mtu, max_mtu]; a step keeps the Peer of every connected
\* address as it is, whatever packet that address sends, or is the
\* disconnect of that address and removes it.
C29_PeersAreStable ==
    /\ [](\A a \in DOMAIN connected :
            /\ connected[a].addr = a
            /\ min_mtu <= connected[a].mtu
            /\ connected[a].mtu <= max_mtu)
    /\ [][\A a \in DOMAIN connected :
            IF a \in DOMAIN connected'
            THEN connected'[a] = connected[a]
            ELSE disconnect(a)]_vars

\* both addresses are connected with different mtus, and the one that sent
\* the last OpenConnectionRequest2, with yet another mtu in range, was
\* refused
C29_Witness ==
    /\ Cardinality(DOMAIN connected) >= 2
    /\ \E a, b \in DOMAIN connected : connected[a].mtu /= connected[b].mtu
    /\ lastOp.op = "OpenConnectionRequest2"
    /\ lastOp.addr \in DOMAIN connected
    /\ lastOp.mtu \in min_mtu..max_mtu
    /\ connected[lastOp.addr].mtu /= lastOp.mtu
    /\ Replying("AlreadyConnected", lastOp.addr)

(***************************************************************************)
(* OfflineHandler: an OpenConnectionRequest2 uses up the pending entry.    *)
(***************************************************************************)
\* C30: after an OpenConnectionRequest2 its address is not pending, whether
\* the request was accepted, refused with AlreadyConnected or came without
\* a Request1, and the pending entries of the other addresses are as they
\* were; a second OpenConnectionRequest2 of the address with no packet
\* handled in between is answered with IncompatibleProtocol and connects
\* nothing.
C30_Request2ConsumesPending ==
    [][LET addr == lastOp'.addr  mtu == lastOp'.mtu IN
          OnRequest2(addr, mtu) =>
             /\ addr \notin LruKeys(pending')
             /\ OthersPending(pending', addr) = OthersPending(pending, addr)
             /\ (lastOp.op = "OpenConnectionRequest2" /\ lastOp.addr = addr) =>
                   /\ sending' = Send(IncompatibleProtocol, addr)
                   /\ connected' = connected]_vars

\* a Request2 of a pending address was refused for its mtu: the address is
\* neither pending nor connected, another one is still pending
C30_Witness ==
    /\ lastOp.op = "OpenConnectionRequest2"
    /\ Replying("AlreadyConnected", lastOp.addr)
    /\ lastOp.mtu \notin min_mtu..max_mtu
    /\ lastOp.addr \notin LruKeys(pending)
    /\ lastOp.addr \notin DOMAIN connected
    /\ LruKeys(pending) /= {}

(***************************************************************************)
(* ResendMap: the cached deadline of process_stales.                       *)
(***************************************************************************)
\* C25: last_record_expired_at is never later than the expired_at of an
\* entry of the map; so a process_stales that returns early, with now
\* earlier than the cached deadline, leaves no entry behind whose deadline
\* has passed.
C25_CacheNeverLate ==
    /\ [](\A k \in DOMAIN map : last_record_expired_at <= map[k].expired_at)
    /\ [][(lastCall'.op = "process_stales" /\ now < last_record_expired_at)
          => \A buffer_in \in BufferInputs :
                process_stales(buffer_in)
                => /\ map' = map
                   /\ buffer' = buffer_in
                   /\ \A k \in DOMAIN map : map[k].expired_at > now]_vars

\* process_stales has returned early on a map that holds entries of two
\* different deadlines
C25_Witness ==
    /\ lastCall.op = "process_stales"
    /\ ~lastCall.hit
    /\ now < last_record_expired_at
    /\ \E k, j \in DOMAIN map : map[k].expired_at < map[j].expired_at

(***************************************************************************)
(* ResendMap: the resender makes progress.                                 *)
(***************************************************************************)
\* C24: when the latest call was a poll_wait that reported Ready and the map
\* holds an entry, a process_stales removes at least one entry and appends
\* its frames to the buffer: it removes exactly the entries whose deadline
\* has passed and leaves the others as they are, so that a poll_wait right
\* after it finds the map empty or has to wait.
C24_ReadyMeansDrain ==
    [][(/\ lastCall.op = "poll_wait"
        /\ lastCall.ready
        /\ map /= << >>
        /\ lastCall'.op = "process_stales")
       => \A buffer_in \in BufferInputs :
             process_stales(buffer_in)
             => /\ Removed(map, map') /= {}
                /\ Removed(map, map') = {k \in DOMAIN map : map[k].expired_at <= now}
                /\ Len(buffer') > Len(buffer_in)
                /\ \A k \in Removed(map, map') :
                      \A i \in DOMAIN map[k].frames :
                         \E j \in (Len(buffer_in) + 1)..Len(buffer') :
                            buffer'[j] = map[k].frames[i]
                /\ \A k \in DOMAIN map' : map'[k] = map[k] /\ map[k].expired_at > now
                /\ map' = << >> \/ MinExpiredAt(map') > now]_vars

\* the timer poll_wait armed has fired, poll_wait has reported Ready and
\* process_stales has drained one entry and left a later one in place
C24_Witness ==
    /\ lastCall.op = "process_stales"
    /\ lastCall.hit
    /\ Len(buffer) > Len(<<QueuedFrame>>)
    /\ map /= << >>
    /\ \A k \in DOMAIN map : map[k].expired_at > now
    /\ now > 0
    /\ last_record_expired_at = MinExpiredAt(map)

(***************************************************************************)
(* C21: the socket address codec round trip.                               *)
(***************************************************************************)
\* the bytes of the buffer from the i-th to the j-th as one big-endian number
\* of at most 16 bits
BigEndian(i, j) ==
    IF i = j THEN addr_buf[i] ELSE addr_buf[i] * 256 + addr_buf[j]

\* the number of bytes the latest get_socket_addr took from the buffer
Consumed == Len(addr_buf) - Len(addr_got.rest)

\* C21: the bytes put_socket_addr writes for an IPv4 address are 04, the ip
\* big-endian and the port big-endian, 7 bytes; for an IPv6 address 06, the
\* family 0x17, the port, the flow, the 16 bytes of the ip and the scope, all
\* big-endian, 29 bytes. get_socket_addr on these bytes returns the address
\* that was put and takes exactly these bytes, whatever follows them. On a
\* version byte other than 4 and 6 it fails with InvalidIPVer, and on a whole
\* IPv6 address with a family other than 0x17 with InvalidIPV6Family.
C21_SocketAddrRoundTrip ==
    /\ (addr_put /= NoSocketAddr /\ addr_put.v = 4) =>
          /\ Len(addr_buf) >= 7
          /\ addr_buf[1] = 4
          /\ SubSeq(addr_buf, 2, 5) = addr_put.ip
          /\ BigEndian(6, 7) = addr_put.port
          /\ addr_got /= NoAddrRead =>
                /\ addr_got.res = [ok |-> TRUE, v |-> addr_put]
                /\ Consumed = 7
                /\ addr_got.rest = SubSeq(addr_buf, 8, Len(addr_buf))
    /\ (addr_put /= NoSocketAddr /\ addr_put.v = 6) =>
          /\ Len(addr_buf) >= 29
          /\ addr_buf[1] = 6
          /\ BigEndian(2, 3) = 23
          /\ BigEndian(4, 5) = addr_put.port
          /\ <<BigEndian(6, 7), BigEndian(8, 9)>> = addr_put.flowinfo
          /\ SubSeq(addr_buf, 10, 25) = addr_put.ip
          /\ <<BigEndian(26, 27), BigEndian(28, 29)>> = addr_put.scope_id
          /\ addr_got /= NoAddrRead =>
                /\ addr_got.res = [ok |-> TRUE, v |-> addr_put]
                /\ Consumed = 29
                /\ addr_got.rest = SubSeq(addr_buf, 30, Len(addr_buf))
    /\ (addr_got /= NoAddrRead /\ Len(addr_buf) >= 1 /\ addr_buf[1] \notin {4, 6}) =>
          addr_got.res = [ok |-> FALSE, err |-> "InvalidIPVer", id |-> addr_buf[1]]
    /\ (addr_got /= NoAddrRead /\ Len(addr_buf) >= 29 /\ addr_buf[1] = 6
            /\ BigEndian(2, 3) /= 23) =>
          addr_got.res = [ok |-> FALSE, err |-> "InvalidIPV6Family",
                          id |-> BigEndian(2, 3)]

\* an IPv6 address whose fields all differ has been put before two more bytes
\* and read back
C21_Witness ==
    /\ addr_put /= NoSocketAddr
    /\ addr_put.v = 6
    /\ addr_put.port = 19132
    /\ addr_put.flowinfo = <<1, 0>>
    /\ addr_put.scope_id = <<0, 5>>
    /\ addr_put.ip[1] = 15
    /\ addr_got.res = [ok |-> TRUE, v |-> addr_put]
    /\ addr_got.rest = <<4, 6>>

(***************************************************************************)
(* C22: connect_to yields an IO only after the handshake and the online    *)
(* set-up, and none after a failure.                                       *)
(***************************************************************************)
ConnectOrder == <<"connect", "handle_offline", "handle_online">>

\* C22: connect_to returns Ok(io) only when the socket is connected to the
\* chosen address, the offline handshake with that address has completed and
\* then the online phase has been set up, in this order. A handshake that
\* fails with IncompatibleProtocol, AlreadyConnected or
\* ConnectionRequestFailed makes connect_to return that error, a list of
\* resolved addresses none of which can be connected makes it return
\* AddrNotAvailable, and what connect_to has returned is final: no IO comes
\* after an error.
C22_ConnectThenHandshake ==
    /\ [](io.ok => /\ completed = ConnectOrder
                   /\ stage = "returned"
                   /\ chosen /= NoSocketAddr
                   /\ io.v = chosen)
    /\ [](\E n \in 0..3 : completed = SubSeq(ConnectOrder, 1, n))
    /\ [][/\ \A kind \in HandshakeErrors :
                /\ handle_offline([ok |-> FALSE, err |-> kind]) =>
                      io' = [ok |-> FALSE, err |-> kind] /\ completed' = completed
                /\ handle_online([ok |-> FALSE, err |-> kind]) =>
                      io' = [ok |-> FALSE, err |-> kind] /\ completed' = completed
          /\ (stage = "connect" /\ lookups = << >>) =>
                io' = [ok |-> FALSE, err |-> "AddrNotAvailable"]
          /\ completed /= << >> => chosen' = chosen
          /\ io /= NotReturned => io' = io
          /\ (io'.ok /\ ~io.ok) => stage = "handle_online"]_vars

\* the first address could not be connected, the second could, and the
\* handshake and the online set-up with it went through
C22_Witness ==
    /\ io.ok
    /\ io.v = chosen
    /\ chosen.v = 6
    /\ lookups = << >>
    /\ completed = ConnectOrder

(***************************************************************************)
(* C28: the channels between the client's read path and write path.        *)
(***************************************************************************)
\* C28: every record the read path forwards, an incoming ACK or NACK or a
\* seq_num for the outgoing acknowledgement, goes through a FIFO channel
\* without a bound: the read path can always forward the next record, however
\* many the write path has not yet taken, and the write path receives the
\* records of a channel once each and in the order they were forwarded,
\* whatever the interleaving; what has been forwarded is received in the end.
C28_ChannelsAreUnboundedFifo ==
    /\ [](\A c \in Channels : forwarded[c] = received[c] \o channels[c])
    /\ [](\A c \in Channels :
             (io.ok /\ Forwarded < MaxForward) =>
                 \A rec \in ControlRecords(c) : ENABLED forward(c, rec))
    /\ [][\A c \in Channels :
             /\ received'[c] /= received[c] =>
                   /\ Len(received[c]) < Len(forwarded[c])
                   /\ received'[c] = Append(received[c], forwarded[c][Len(received[c]) + 1])
                   /\ forwarded' = forwarded
             /\ forwarded'[c] /= forwarded[c] =>
                   /\ received' = received
                   /\ Len(forwarded'[c]) = Len(forwarded[c]) + 1
                   /\ SubSeq(forwarded'[c], 1, Len(forwarded[c])) = forwarded[c]]_vars
    /\ \A c \in Channels : []<>(received[c] = forwarded[c])

\* the read path has forwarded two incoming ACKs the write path has not yet
\* taken, after an outgoing seq_num the write path has received
C28_Witness ==
    /\ channels["incoming_ack"] =
          <<[kind |-> "Range", start |-> 0, end |-> 1],
            [kind |-> "Single", start |-> 0, end |-> 0]>>
    /\ received["incoming_ack"] = << >>
    /\ received["outgoing_ack"] = <<1>>
    /\ forwarded["outgoing_ack"] = <<1>>

(***************************************************************************)
(* C31: the replies of the OfflineHandler on the wire.                     *)
(***************************************************************************)
\* unconnected::Packet::pack_id: the PackId of an unconnected packet, the id
\* of its name in the enum
unconnected_pack_id(packet) ==
    IF packet.kind = "IncompatibleProtocol" THEN "IncompatibleProtocolVersion"
    ELSE packet.kind

\* Packet::write: buf.put_u8(self.pack_id().into()), the first byte of the
\* datagram
FirstByte(packet) == u8_from(unconnected_pack_id(packet))

\* the reader of unconnected::Packet that builds a packet of this kind
ReplyReader(kind) ==
    IF kind = "UnconnectedPong" THEN "unconnected::read_unconnected_pong"
    ELSE IF kind = "OpenConnectionReply1" THEN "unconnected::read_open_connection_reply1"
    ELSE IF kind = "OpenConnectionReply2" THEN "unconnected::read_open_connection_reply2"
    ELSE IF kind = "IncompatibleProtocol" THEN "unconnected::read_incompatible_protocol"
    ELSE IF kind = "AlreadyConnected" THEN "unconnected::read_already_connected"
    ELSE "unconnected::read_connection_request_failed"

\* C31 as stated: whatever reply the OfflineHandler is sending, the first
\* byte Packet::write puts for it is one that PackId::from_u8 turns back into
\* the reply's id and that Packet::read hands to the reader of the same kind
\* of packet, not one it refuses with InvalidPacketId.
C31_Original ==
    sending /= NoSend =>
        LET byte == FirstByte(sending.packet)
        IN  /\ from_u8(byte) = Ok(unconnected_pack_id(sending.packet))
            /\ Dispatch(from_u8(byte)) = Ok(ReplyReader(sending.packet.kind))

=============================================================================
